---------------------------- MODULE Spec2Model ----------------------------
(***************************************************************************)
(* Model of the server-authoritative match of the card game: the turn      *)
(* engine (src/utility/game_manager.py: GameManager, AbilityProcessor)     *)
(* driven by one match session (src/server/game_server.py: GameSession).   *)
(*                                                                         *)
(* A Python dict/list becomes a TLA+ record/sequence; list indices are     *)
(* 0-based in the code and 1-based here (index i of the code is i + 1).   *)
(* None is the string "none".  Player.ATTACKER / Player.DEFENDER and the   *)
(* keys "attacker" / "defender" are the strings "attacker" / "defender".   *)
(***************************************************************************)
EXTENDS Integers, Sequences, FiniteSets, TLC

\* ------------------------------------------------------------------ bounds
\* The turn counter stops growing at MaxTurn (guard of the defender's end_turn).
MaxTurn == 2
\* At most MaxUnits placements are accepted in one run (guard of place_card).
MaxUnits == 2

\* ------------------------------------------------------- program constants
CAPTURE_THRESHOLD == 5
ASSASSIN_DAMAGE == 2

None == "none"

\* An optional value (a key that may be absent, a field that may be null) is a
\* sequence of no element or of one.
Absent == <<>>
Some(v) == <<v>>
Sides == {"attacker", "defender"}
Other(side) == IF side = "attacker" THEN "defender" ELSE "attacker"

\* GameManager.LOCATIONS, in the order the code iterates them.
LOCATIONS == <<"Keep", "Gate", "Courtyard", "Forest", "Walls", "Sewers", "Camp">>
LocSet == {LOCATIONS[i] : i \in 1..Len(LOCATIONS)}
\* The zone order used by every loop over zones.
ZONES == <<"attacker_zone", "middle_zone", "defender_zone">>
ZoneSet == {ZONES[i] : i \in 1..Len(ZONES)}

ATTACKER_BLOCKED == {"Keep", "Courtyard"}
DEFENDER_BLOCKED == {"Forest", "Camp"}
CAPTURABLE_LOCATIONS == {"Gate", "Walls", "Sewers"}

ADJACENCY ==
    [Camp      |-> {"Forest", "Gate", "Walls"},
     Forest    |-> {"Camp", "Walls", "Sewers"},
     Gate      |-> {"Camp", "Courtyard"},
     Walls     |-> {"Camp", "Forest", "Courtyard", "Keep"},
     Sewers    |-> {"Forest", "Keep"},
     Courtyard |-> {"Gate", "Walls", "Keep"},
     Keep      |-> {"Courtyard", "Sewers", "Walls"}]

\* ------------------------------------------------------------ card catalog
\* CARDS_DATA rows used by the model: subtype tags (the comma-separated
\* string, split), species, attack, health, cost.
Info(sub, sp, a, h, c) == [subtype |-> sub, species |-> sp, attack |-> a, health |-> h, cost |-> c]

CARDS_DATA ==
    [Avatar        |-> Info({"Leader"}, "", 2, 2, 0),
     Footman       |-> Info({}, "Human", 2, 2, 2),
     Militia       |-> Info({}, "Human", 1, 2, 1),
     Eagle         |-> Info({"Ranged", "Scout"}, "Eagle", 0, 1, 1),
     Pikeman       |-> Info({"AntiCavalry"}, "Human", 2, 3, 2),
     Shieldbearer  |-> Info({"Taunt"}, "Human", 1, 5, 3),
     Berserker     |-> Info({"Frenzy"}, "Human", 5, 2, 4),
     Bannerman     |-> Info({"Inspire"}, "Human", 2, 2, 3),
     Crossbowman   |-> Info({"Ranged", "Piercing"}, "Human", 4, 2, 4),
     Heavy_Cavalry |-> Info({"Mounted", "Charge"}, "Human", 4, 4, 5),
     Catapult      |-> Info({"Machinery", "Siege"}, "", 4, 3, 5),
     Dire_Wolf     |-> Info({"Scout", "Pack"}, "Beast", 2, 2, 2),
     War_Bear      |-> Info({"Intimidate"}, "Beast", 4, 5, 5),
     Battle_Mage   |-> Info({"Ranged", "Magic"}, "Human", 3, 2, 4),
     Healer        |-> Info({"Support"}, "Human", 0, 2, 3),
     Warlock       |-> Info({"Magic", "Curse"}, "Human", 2, 3, 4),
     Necromancer   |-> Info({"Magic", "Summon"}, "Human", 2, 2, 5),
     Druid         |-> Info({"Magic", "Nature"}, "Human", 1, 3, 3),
     Spy           |-> Info({"Scout", "Stealth"}, "Human", 1, 1, 2),
     Assassin      |-> Info({"Stealth", "Execute"}, "Human", 4, 1, 4),
     Saboteur      |-> Info({"Stealth"}, "Human", 1, 2, 3),
     Skeleton      |-> Info({"Undead"}, "Undead", 1, 1, 1),
     Wraith        |-> Info({"Undead", "Ethereal"}, "Undead", 3, 2, 4),
     Templar       |-> Info({"Holy"}, "Human", 3, 4, 5),
     General       |-> Info({"Commander"}, "Human", 3, 4, 6)]

\* db.get_card_info: None for an id that is not in the catalog.
get_card_info(card_id) == IF card_id \in DOMAIN CARDS_DATA THEN CARDS_DATA[card_id] ELSE None

get_subtypes(card) == CARDS_DATA[card.card_id].subtype
get_species(card) == CARDS_DATA[card.card_id].species
base_attack(card) == CARDS_DATA[card.card_id].attack
base_health(card) == CARDS_DATA[card.card_id].health

\* ------------------------------------------------------------------- state
VARIABLES
    current_turn,              \* GameManager.current_turn
    current_player,            \* GameManager.current_player
    has_passed,                \* attacker_has_passed / defender_has_passed
    has_drawn,                 \* attacker_has_drawn / defender_has_drawn
    has_moved,                 \* attacker_has_moved / defender_has_moved
    hand_reinforcement_queue,  \* list of {card_id, turns_remaining, player}
    battlefield_cards,         \* location -> zone -> side -> list of card instances
    first_placer,              \* location -> first_placer of its middle_zone
    player_hands,              \* side -> list of card ids
    player_decks,              \* side -> list of card ids
    location_control,          \* location -> side or None
    capture_power,             \* location -> side -> accumulated power
    winner,                    \* GameSession.winner
    is_active,                 \* GameSession.is_active
    pending_combat_zones,      \* GameSession.pending_combat_zones
    awaiting_blocker_selection,\* GameSession.awaiting_blocker_selection
    next_uid,                  \* identity of the next card instance (dict) created
    phase_draws,               \* history: successful draws in the current phase
    phase_moves,               \* history: successful moves in the current phase
    last,                      \* history: the last action handled and its result
    net                        \* connection handlers: side -> position, and the stalled side

engine_vars == <<current_turn, current_player, has_passed, has_drawn, has_moved,
                 hand_reinforcement_queue, battlefield_cards, first_placer,
                 player_hands, player_decks, location_control, capture_power>>
session_vars == <<winner, is_active, pending_combat_zones, awaiting_blocker_selection>>
history_vars == <<next_uid, phase_draws, phase_moves, last>>
vars == <<engine_vars, session_vars, history_vars, net>>

\* ------------------------------------------------------------ list helpers
Range(s) == {s[i] : i \in 1..Len(s)}
RemoveAt(s, i) == SubSeq(s, 1, i - 1) \o SubSeq(s, i + 1, Len(s))
\* list.remove(x) / the loop of remove_card_from_hand: drop the first x.
FirstIndex(s, x) == CHOOSE i \in 1..Len(s) : s[i] = x /\ \A j \in 1..(i - 1) : s[j] # x
RemoveFirst(s, x) == IF x \in Range(s) THEN RemoveAt(s, FirstIndex(s, x)) ELSE s
RECURSIVE SumSeq(_)
SumSeq(s) == IF s = <<>> THEN 0 ELSE Head(s) + SumSeq(Tail(s))
Max(a, b) == IF a >= b THEN a ELSE b
Min(a, b) == IF a <= b THEN a ELSE b

EmptyZone == [attacker |-> <<>>, defender |-> <<>>]

\* GameManager.__init__ with _init_battlefield, then GameSession.__init__:
\* the decks given by the match maker and the Avatar seeded into both hands.
\* A connection handler waiting for its next message (async for message in websocket).
Idle == [at |-> "idle", k |-> 0, msg |-> <<"", "", "", "">>]

\* Both connection handlers idle; stalled names the side whose connection
\* accepts no more data (None: neither).
QuietNet(stalled) == [pc |-> [s \in Sides |-> Idle], stalled |-> stalled]

InitWith(attacker_deck, defender_deck) ==
    /\ current_turn = 1
    /\ current_player = "attacker"
    /\ has_passed = [s \in Sides |-> FALSE]
    /\ has_drawn = [s \in Sides |-> FALSE]
    /\ has_moved = [s \in Sides |-> FALSE]
    /\ hand_reinforcement_queue = <<>>
    /\ battlefield_cards = [l \in LocSet |-> [z \in ZoneSet |-> EmptyZone]]
    /\ first_placer = [l \in LocSet |-> None]
    /\ player_hands = [s \in Sides |-> <<"Avatar">>]
    /\ player_decks = [attacker |-> attacker_deck, defender |-> defender_deck]
    /\ location_control =
           [l \in LocSet |->
               IF l \in {"Camp", "Forest"} THEN "attacker"
               ELSE IF l \in {"Courtyard", "Keep"} THEN "defender" ELSE None]
    /\ capture_power = [l \in LocSet |-> [s \in Sides |-> 0]]
    /\ winner = None
    /\ is_active = TRUE
    /\ pending_combat_zones = <<>>
    /\ awaiting_blocker_selection = Absent
    /\ next_uid = 1
    /\ phase_draws = 0
    /\ phase_moves = 0
    /\ last = [actor |-> None, action |-> None, success |-> FALSE, raised |-> FALSE,
               broadcast |-> FALSE]

\* ------------------------------------------------------- ability resolver
\* card.get("attack_modifier", 0) / card.get("health_modifier", 0): the key is
\* absent until an effect writes it.
attack_modifier_of(card) == IF card.attack_modifier = Absent THEN 0 ELSE card.attack_modifier[1]
health_modifier_of(card) == IF card.health_modifier = Absent THEN 0 ELSE card.health_modifier[1]

\* Python's dict comparison `ally != card_data`: by value, not by identity.
SameDict(a, b) == [a EXCEPT !.uid = 0] = [b EXCEPT !.uid = 0]

\* The index (1-based) of the first enemy with the lowest current_health.
WeakestIndex(cards) ==
    CHOOSE i \in 1..Len(cards) :
        /\ \A j \in 1..Len(cards) : cards[i].current_health <= cards[j].current_health
        /\ \A j \in 1..(i - 1) : cards[j].current_health > cards[i].current_health

\* Assassin: 2 damage to the weakest enemy of the zone; popped if it dies.
\* Variant of the Assassin's hit that leaves its victim in the zone.
OnPlayAssassinWounds(zone, card_data, player_key) ==
    IF "Execute" \in get_subtypes(card_data) /\ card_data.card_id = "Assassin"
       /\ zone[Other(player_key)] # <<>>
    THEN [zone EXCEPT ![Other(player_key)][WeakestIndex(zone[Other(player_key)])].current_health =
             @ - ASSASSIN_DAMAGE]
    ELSE zone

OnPlayAssassin(zone, card_data, player_key) ==
    LET enemy_key == Other(player_key)
        enemy_cards == zone[enemy_key]
    IN  IF "Execute" \in get_subtypes(card_data) /\ card_data.card_id = "Assassin"
           /\ enemy_cards # <<>>
        THEN LET w == WeakestIndex(enemy_cards)
                 hit == [enemy_cards EXCEPT ![w].current_health = @ - ASSASSIN_DAMAGE]
             IN  [zone EXCEPT ![enemy_key] =
                     IF hit[w].current_health <= 0 THEN RemoveAt(hit, w) ELSE hit]
        ELSE zone

\* Warlock: the first enemy of the zone loses 1 attack.
OnPlayCurse(zone, card_data, player_key) ==
    LET enemy_key == Other(player_key)
    IN  IF "Curse" \in get_subtypes(card_data) /\ zone[enemy_key] # <<>>
        THEN [zone EXCEPT ![enemy_key][1].attack_modifier = Some(attack_modifier_of(zone[enemy_key][1]) - 1)]
        ELSE zone

\* Saboteur: pops the last enemy Siege/Machinery unit of the zone.
OnPlaySaboteur(zone, card_data, player_key) ==
    LET enemy_key == Other(player_key)
        enemy_cards == zone[enemy_key]
        siege == {i \in 1..Len(enemy_cards) :
                     get_subtypes(enemy_cards[i]) \cap {"Siege", "Machinery"} # {}}
    IN  IF "Stealth" \in get_subtypes(card_data) /\ card_data.card_id = "Saboteur" /\ siege # {}
        THEN [zone EXCEPT ![enemy_key] =
                 RemoveAt(enemy_cards, CHOOSE i \in siege : \A j \in siege : j <= i)]
        ELSE zone

\* +1 attack, and with `health` +1 health_modifier and +1 current_health.
Buff(card, health) ==
    IF health
    THEN [card EXCEPT !.attack_modifier = Some(attack_modifier_of(card) + 1),
                      !.health_modifier = Some(health_modifier_of(card) + 1),
                      !.current_health = card.current_health + 1]
    ELSE [card EXCEPT !.attack_modifier = Some(attack_modifier_of(card) + 1)]

\* Bannerman: every ally of the zone that differs from the placed card gains +1 attack.
OnPlayInspire(zone, card_data, player_key) ==
    LET allies == zone[player_key]
    IN  IF "Inspire" \in get_subtypes(card_data)
        THEN [zone EXCEPT ![player_key] =
                 [i \in 1..Len(allies) |->
                     IF ~SameDict(allies[i], card_data) THEN Buff(allies[i], FALSE) ELSE allies[i]]]
        ELSE zone

\* General: every ally of the zone that differs from the placed card gains +1/+1.
OnPlayCommander(zone, card_data, player_key) ==
    LET allies == zone[player_key]
    IN  IF "Commander" \in get_subtypes(card_data)
        THEN [zone EXCEPT ![player_key] =
                 [i \in 1..Len(allies) |->
                     IF ~SameDict(allies[i], card_data) THEN Buff(allies[i], TRUE) ELSE allies[i]]]
        ELSE zone

\* Druid: every allied Beast of the zone gains +1/+1.
OnPlayNature(zone, card_data, player_key) ==
    LET allies == zone[player_key]
    IN  IF "Nature" \in get_subtypes(card_data)
        THEN [zone EXCEPT ![player_key] =
                 [i \in 1..Len(allies) |->
                     IF get_species(allies[i]) = "Beast" THEN Buff(allies[i], TRUE) ELSE allies[i]]]
        ELSE zone

\* AbilityProcessor.process_on_play: the effects in the order of the code,
\* all on the lists of the zone the card was placed in.
process_on_play(zone, card_data, player_key) ==
    LET z1 == OnPlayAssassin(zone, card_data, player_key)
        z2 == OnPlayCurse(z1, card_data, player_key)
        z3 == OnPlaySaboteur(z2, card_data, player_key)
        z4 == OnPlayInspire(z3, card_data, player_key)
        z5 == OnPlayCommander(z4, card_data, player_key)
    IN  OnPlayNature(z5, card_data, player_key)

\* AbilityProcessor.process_on_death: a dead Necromancer leaves a Skeleton in its zone.
NewSkeleton(uid) ==
    [uid |-> uid, card_id |-> "Skeleton", current_health |-> CARDS_DATA["Skeleton"].health,
     is_tapped |-> TRUE, turn_placed |-> 0, has_moved_this_turn |-> FALSE,
     attack_modifier |-> Absent, health_modifier |-> Absent, has_charged |-> FALSE]

SummonsOnDeath(card) == "Summon" \in get_subtypes(card) /\ card.card_id = "Necromancer"

\* ----------------------------------------------------------- turn engine
\* Variant of can_place_at_location that grants every location.
always_accessible(location, player) == TRUE

\* GameManager.can_place_at_location
can_place_at_location(location, player) ==
    LET blocked_list == IF player = "attacker" THEN ATTACKER_BLOCKED ELSE DEFENDER_BLOCKED
    IN  \/ location \notin blocked_list
        \/ \E adj_loc \in ADJACENCY[location] :
               adj_loc \in CAPTURABLE_LOCATIONS /\ location_control[adj_loc] = player

\* Variant of can_draw_card that ignores the has-drawn flag.
always_can_draw(player) == TRUE

\* GameManager.can_draw_card
can_draw_card(player) == ~has_drawn[player]

\* Variant of can_specific_card_move without the placement-turn test.
can_move_unless_moved(card) == ~card.has_moved_this_turn

\* GameManager.can_specific_card_move
can_specific_card_move(card) ==
    /\ ~(card.turn_placed >= current_turn)
    /\ ~card.has_moved_this_turn

\* The card instance place_card_on_battlefield builds.
NewCard(uid, card_id) ==
    [uid |-> uid, card_id |-> card_id, current_health |-> CARDS_DATA[card_id].health,
     is_tapped |-> FALSE, turn_placed |-> current_turn, has_moved_this_turn |-> FALSE,
     attack_modifier |-> Absent, health_modifier |-> Absent, has_charged |-> FALSE]

\* The outcome recorded for the action just handled (the action_result sent
\* back) by a handler that ran to its end: broadcast_state was called, so a
\* game_state went to every connection of the session.
Result(actor, action, success) ==
    [actor |-> actor, action |-> action, success |-> success, raised |-> FALSE,
     broadcast |-> TRUE]

\* The outcome of a handler that returned {"success": False, "error": ...}
\* from one of its early checks, before any broadcast.
Returned(actor, action) ==
    [actor |-> actor, action |-> action, success |-> FALSE, raised |-> FALSE,
     broadcast |-> FALSE]

\* The handler left by an exception: no result is sent and handle_connection,
\* which catches ConnectionClosed only, ends for the sender.
Raised(actor, action) ==
    [actor |-> actor, action |-> action, success |-> FALSE, raised |-> TRUE,
     broadcast |-> FALSE]

\* Variant of the turn check that does not look at the combat phase.
ActingSideOnly(player) == current_player = player

\* Variant of the turn check that lets either side act.
AnySideAllowed(player) == awaiting_blocker_selection = Absent

\* handle_action, lines 269-275: normal actions wait for the blocker assignment
\* and belong to the acting side.
NormalActionAllowed(player) ==
    /\ awaiting_blocker_selection = Absent
    /\ current_player = player

\* GameManager.process_turn walks the queue from its last entry to its first:
\* every entry loses one turn, an entry at 0 leaves the queue and its card is
\* appended to its owner's hand (so arrivals reach the hand in reverse queue order).
DecrementedQueue(queue) == [i \in 1..Len(queue) |-> [queue[i] EXCEPT !.turns_remaining = @ - 1]]

RECURSIVE ArrivedFor(_, _, _)
ArrivedFor(queue, i, player) ==
    IF i = 0 THEN <<>>
    ELSE IF queue[i].turns_remaining <= 0 /\ queue[i].player = player
         THEN <<queue[i].card_id>> \o ArrivedFor(queue, i - 1, player)
         ELSE ArrivedFor(queue, i - 1, player)

\* Variant of the queue test that keeps an entry that has reached zero.
QueuedAtZero(entry) == entry.turns_remaining >= 0

StillQueued(entry) == entry.turns_remaining > 0

process_turn_queue(queue) == SelectSeq(DecrementedQueue(queue), StillQueued)
process_turn_hands(queue, hands) ==
    [p \in Sides |-> hands[p] \o ArrivedFor(DecrementedQueue(queue), Len(queue), p)]

\* AbilityProcessor.process_end_of_turn: each Healer of a list heals by 1 every
\* ally of that list that is below its maximum.
max_health_of(card) == base_health(card) + health_modifier_of(card)

HealPass(cards) ==
    [i \in 1..Len(cards) |->
        IF cards[i].current_health < max_health_of(cards[i])
        THEN [cards[i] EXCEPT !.current_health = Min(max_health_of(cards[i]), @ + 1)]
        ELSE cards[i]]

RECURSIVE HealTimes(_, _)
HealTimes(cards, n) == IF n = 0 THEN cards ELSE HealTimes(HealPass(cards), n - 1)

IsHealer(card) == "Support" \in get_subtypes(card) /\ card.card_id = "Healer"

\* Variant of the Healer's pass that reaches every zone of its location.
heal_whole_location(field) ==
    [l \in LocSet |-> [z \in ZoneSet |-> [p \in Sides |->
        HealTimes(field[l][z][p],
                  SumSeq([j \in 1..Len(ZONES) |->
                      Cardinality({i \in 1..Len(field[l][ZONES[j]][p]) :
                                      IsHealer(field[l][ZONES[j]][p][i])})]))]]]

process_end_of_turn(field) ==
    [l \in LocSet |-> [z \in ZoneSet |-> [p \in Sides |->
        HealTimes(field[l][z][p],
                  Cardinality({i \in 1..Len(field[l][z][p]) : IsHealer(field[l][z][p][i])}))]]]

\* Sum of the catalog attack of the cards of a list.
RECURSIVE AttackSum(_)
AttackSum(cards) == IF cards = <<>> THEN 0 ELSE base_attack(Head(cards)) + AttackSum(Tail(cards))

RECURSIVE HealthSum(_)
HealthSum(cards) == IF cards = <<>> THEN 0 ELSE Head(cards).current_health + HealthSum(Tail(cards))

\* Variant of the power gain that counts middle_zone alone.
MiddleGainOnly(field, location, side) ==
    AttackSum(field[location]["middle_zone"][side])

\* The power one resolution adds for a side at a location: 1x in middle_zone,
\* 2x in the opposing home zone.
\* Variant of the power gain that also counts the side's own home zone.
GainInOwnZone(field, location, side) ==
    AttackSum(field[location]["middle_zone"][side])
    + 2 * AttackSum(field[location][IF side = "attacker" THEN "defender_zone" ELSE "attacker_zone"][side])
    + AttackSum(field[location][IF side = "attacker" THEN "attacker_zone" ELSE "defender_zone"][side])

PowerGain(field, location, side) ==
    AttackSum(field[location]["middle_zone"][side])
    + 2 * AttackSum(field[location][IF side = "attacker" THEN "defender_zone" ELSE "attacker_zone"][side])

\* Variant of accumulate_capture_power that does not skip captured locations.
accumulate_everywhere(field, control, power) ==
    [l \in LocSet |->
        IF l \in CAPTURABLE_LOCATIONS
        THEN [p \in Sides |-> power[l][p] + PowerGain(field, l, p)]
        ELSE power[l]]

\* GameManager.accumulate_capture_power
accumulate_capture_power(field, control, power) ==
    [l \in LocSet |->
        IF l \in CAPTURABLE_LOCATIONS /\ control[l] = None
        THEN [p \in Sides |-> power[l][p] + PowerGain(field, l, p)]
        ELSE power[l]]

\* GameManager.get_capture_threshold
get_capture_threshold(field, location, for_player) ==
    CAPTURE_THRESHOLD
    + SumSeq([i \in 1..Len(ZONES) |-> HealthSum(field[location][ZONES[i]][Other(for_player)])])

\* Variant of the capture condition that looks at the power alone.
can_capture_by_power(field, power, location, side) ==
    power[location][side] >= get_capture_threshold(field, location, side)

\* Whether a side meets the capture condition of check_captures at a location.
can_capture(field, power, location, side) ==
    /\ Len(field[location]["middle_zone"][side]) > 0
    /\ power[location][side] >= get_capture_threshold(field, location, side)

\* The side check_captures hands a location to (None: no capture).
CaptureWinner(field, control, power, location) ==
    LET atk == can_capture(field, power, location, "attacker")
        def == can_capture(field, power, location, "defender")
    IN  IF location \notin CAPTURABLE_LOCATIONS \/ control[location] # None THEN None
        ELSE IF atk /\ def
             THEN IF power[location]["attacker"] > power[location]["defender"] THEN "attacker"
                  ELSE IF power[location]["defender"] > power[location]["attacker"] THEN "defender"
                  ELSE None
        ELSE IF atk THEN "attacker"
        ELSE IF def THEN "defender"
        ELSE None

\* GameManager.check_captures with _on_location_captured
check_captures_control(field, control, power) ==
    [l \in LocSet |->
        IF CaptureWinner(field, control, power, l) # None
        THEN CaptureWinner(field, control, power, l) ELSE control[l]]

\* Variant of the reset that also clears the counters of a tied location.
reset_tied_power(field, control, power) ==
    [l \in LocSet |->
        IF \/ CaptureWinner(field, control, power, l) # None
           \/ (l \in CAPTURABLE_LOCATIONS /\ control[l] = None
               /\ \A p \in Sides : can_capture(field, power, l, p))
        THEN [p \in Sides |-> 0] ELSE power[l]]

check_captures_power(field, control, power) ==
    [l \in LocSet |->
        IF CaptureWinner(field, control, power, l) # None
        THEN [p \in Sides |-> 0] ELSE power[l]]

\* Variant of untap_cards that untaps the units of both sides.
untap_all_cards(field, player) ==
    [l \in LocSet |-> [z \in ZoneSet |-> [p \in Sides |->
        [i \in 1..Len(field[l][z][p]) |->
            [field[l][z][p][i] EXCEPT !.is_tapped = FALSE, !.has_moved_this_turn = FALSE]]]]]

\* Variant of untap_cards that leaves every unit as it is.
untap_no_cards(field, player) == field

\* GameManager.untap_cards
untap_cards(field, player) ==
    [l \in LocSet |-> [z \in ZoneSet |->
        [field[l][z] EXCEPT ![player] =
            [i \in 1..Len(field[l][z][player]) |->
                [field[l][z][player][i] EXCEPT !.is_tapped = FALSE, !.has_moved_this_turn = FALSE]]]]]

\* GameManager.get_blocker_side
get_blocker_side(location, zone) ==
    IF zone = "attacker_zone" THEN "attacker"
    ELSE IF zone = "defender_zone" THEN "defender"
    ELSE IF zone = "middle_zone" THEN first_placer[location]
    ELSE None

\* GameManager.get_combat_zones_at_location for every location, in the order
\* handle_action appends them to pending_combat_zones.
\* Variant of the contested-zone test that is content with one side's units.
IsOccupiedZone(field, location, zone) ==
    field[location][zone]["attacker"] # <<>> \/ field[location][zone]["defender"] # <<>>

IsCombatZone(field, location, zone) ==
    field[location][zone]["attacker"] # <<>> /\ field[location][zone]["defender"] # <<>>

RECURSIVE CombatZonesFrom(_, _, _)
CombatZonesFrom(field, li, zi) ==
    IF li > Len(LOCATIONS) THEN <<>>
    ELSE IF zi > Len(ZONES) THEN CombatZonesFrom(field, li + 1, 1)
    ELSE (IF IsCombatZone(field, LOCATIONS[li], ZONES[zi])
          THEN <<<<LOCATIONS[li], ZONES[zi]>>>> ELSE <<>>)
         \o CombatZonesFrom(field, li, zi + 1)

\* Variant of the enumeration that lists the contested pairs last to first.
CombatZonesBackwards(field) ==
    LET pairs == CombatZonesFrom(field, 1, 1)
    IN  [i \in 1..Len(pairs) |-> pairs[Len(pairs) + 1 - i]]

CombatZones(field) == CombatZonesFrom(field, 1, 1)

\* GameManager.check_win_condition: a side without an Avatar on the
\* battlefield, in its hand and in the queue has lost; the attacker's loss
\* is looked at first.
has_avatar(field, hands, queue, side) ==
    \/ \E l \in LocSet, z \in ZoneSet : \E i \in 1..Len(field[l][z][side]) :
           field[l][z][side][i].card_id = "Avatar"
    \/ "Avatar" \in Range(hands[side])
    \/ \E i \in 1..Len(queue) : queue[i].card_id = "Avatar" /\ queue[i].player = side

check_win_condition(field, hands, queue) ==
    IF ~has_avatar(field, hands, queue, "attacker") THEN "defender"
    ELSE IF ~has_avatar(field, hands, queue, "defender") THEN "attacker"
    ELSE None

\* ------------------------------------------------------------------ combat
\* AbilityProcessor.get_effective_attack
get_effective_attack(card) == Max(0, base_attack(card) + attack_modifier_of(card))

CountWhere(cards, tag) == Cardinality({i \in 1..Len(cards) : tag \in get_subtypes(cards[i])})

\* The Charge bonus of process_combat_modifiers: while has_charged is unset.
charge_bonus(card) ==
    IF "Charge" \in get_subtypes(card) /\ ~card.has_charged
    THEN (IF card.card_id = "Heavy_Cavalry" THEN 2 ELSE 1)
    ELSE 0

\* Pack: +1 per Dire_Wolf of the same list that differs (by value) from the card.
pack_bonus(cards, i) ==
    IF "Pack" \in get_subtypes(cards[i])
    THEN Cardinality({j \in 1..Len(cards) :
             cards[j].card_id = "Dire_Wolf" /\ ~SameDict(cards[j], cards[i])})
    ELSE 0

IsDamaged(card) == card.current_health < base_health(card)

\* AbilityProcessor.process_combat_modifiers(first, second): the entries it
\* files under "attacker" (for the cards of its first list) and under
\* "defender" (for its second list).  The first list is processed first: an
\* Intimidate of the second list lowers a first-list entry after Frenzy set
\* it, and Frenzy of a second-list card overwrites what an Intimidate of the
\* first list had lowered.
process_combat_modifiers(first, second) ==
    [attacker |->
        [i \in 1..Len(first) |->
            [attack |-> (IF "Frenzy" \in get_subtypes(first[i]) /\ IsDamaged(first[i]) THEN 2 ELSE 0)
                        + charge_bonus(first[i]) + pack_bonus(first, i)
                        - CountWhere(second, "Intimidate"),
             anti_mounted |-> "AntiCavalry" \in get_subtypes(first[i])]],
     defender |->
        [i \in 1..Len(second) |->
            [attack |-> (IF "Frenzy" \in get_subtypes(second[i]) /\ IsDamaged(second[i])
                         THEN 2 ELSE 0 - CountWhere(first, "Intimidate"))
                        + charge_bonus(second[i]) + pack_bonus(second, i),
             anti_mounted |-> "AntiCavalry" \in get_subtypes(second[i])]]]

\* modifiers.get(side, {}).get(index, {}) with the defaults the code reads.
ModGet(modifiers, side, i) ==
    IF i \in 1..Len(modifiers[side]) THEN modifiers[side][i]
    ELSE [attack |-> 0, anti_mounted |-> FALSE]

\* assignments.get(atk_idx, []): the blocker indices (0-based, as on the wire).
BlockersOf(assignments, atk_idx) ==
    IF atk_idx \in DOMAIN assignments THEN assignments[atk_idx] ELSE <<>>

\* The damage an attacker deals to its primary blocker (lines 1329-1353).
DamageToBlocker(atk_card, atk_mod, blocker) ==
    LET d0 == get_effective_attack(atk_card) + atk_mod.attack
        d1 == IF atk_mod.anti_mounted /\ "Mounted" \in get_subtypes(blocker) THEN d0 * 2 ELSE d0
        d2 == IF "Piercing" \in get_subtypes(atk_card) THEN d1 + 1 ELSE d1
        d3 == IF "Holy" \in get_subtypes(atk_card) /\ get_species(blocker) = "Undead"
              THEN d2 * 2 ELSE d2
        d4 == IF "Ethereal" \in get_subtypes(blocker) /\ "Magic" \notin get_subtypes(atk_card)
              THEN d3 \div 2 ELSE d3
    IN  Max(0, d4)

\* The damage a listed blocker deals back to the attacker (lines 1368-1385).
DamageToAttacker(blocker, def_mod, atk_card) ==
    LET d0 == get_effective_attack(blocker) + def_mod.attack
        d1 == IF "Ethereal" \in get_subtypes(atk_card) /\ "Magic" \notin get_subtypes(blocker)
              THEN d0 \div 2 ELSE d0
    IN  Max(0, d1)

\* damage_to_defenders[b]: what the blocker at index b (1-based) receives as
\* the primary blocker of the attackers that list it first.
DamageToDefenders(attacker_cards, defender_cards, assignments, modifiers, attacker_side, b) ==
    SumSeq([a \in 1..Len(attacker_cards) |->
        LET blockers == BlockersOf(assignments, a - 1)
        IN  IF blockers # <<>> /\ blockers[1] + 1 = b
            THEN DamageToBlocker(attacker_cards[a], ModGet(modifiers, attacker_side, a),
                                 defender_cards[b])
            ELSE 0])

\* damage_to_attackers[a]: what the attacker at index a (1-based) receives
\* from every blocker listed for it that exists.
DamageToAttackers(attacker_cards, defender_cards, assignments, modifiers, attacker_side, a) ==
    LET blockers == BlockersOf(assignments, a - 1)
    IN  SumSeq([k \in 1..Len(blockers) |->
            IF blockers[k] + 1 \in 1..Len(defender_cards)
            THEN DamageToAttacker(defender_cards[blockers[k] + 1],
                                  ModGet(modifiers, Other(attacker_side), blockers[k] + 1),
                                  attacker_cards[a])
            ELSE 0])

\* The attackers after the damage loop: Charge marked as used, damage applied.
DamagedAttackers(attacker_cards, defender_cards, assignments, modifiers, attacker_side) ==
    [a \in 1..Len(attacker_cards) |->
        [attacker_cards[a] EXCEPT
            !.has_charged = @ \/ "Charge" \in get_subtypes(attacker_cards[a]),
            !.current_health = @ - DamageToAttackers(attacker_cards, defender_cards,
                                                     assignments, modifiers, attacker_side, a)]]

DamagedDefenders(attacker_cards, defender_cards, assignments, modifiers, attacker_side) ==
    [b \in 1..Len(defender_cards) |->
        [defender_cards[b] EXCEPT
            !.current_health = @ - DamageToDefenders(attacker_cards, defender_cards,
                                                     assignments, modifiers, attacker_side, b)]]

\* Variant of the death test that keeps a unit standing at exactly zero health.
AliveAtZero(card) == card.current_health >= 0

IsAlive(card) == card.current_health > 0

\* The cards that die, from the last index to the first (the order of the pops).
RECURSIVE DeadDescending(_, _)
DeadDescending(cards, i) ==
    IF i = 0 THEN <<>>
    ELSE IF ~IsAlive(cards[i]) THEN <<cards[i]>> \o DeadDescending(cards, i - 1)
    ELSE DeadDescending(cards, i - 1)

\* "Remove dead cards" for one list: the survivors in order, then one
\* Skeleton per dead Necromancer (process_on_death), with fresh identities
\* starting at uid.
RemoveDead(cards, uid) ==
    LET summoners == SelectSeq(DeadDescending(cards, Len(cards)), SummonsOnDeath)
    IN  SelectSeq(cards, IsAlive) \o [k \in 1..Len(summoners) |-> NewSkeleton(uid + k - 1)]

SummonCount(cards) == Len(SelectSeq(DeadDescending(cards, Len(cards)), SummonsOnDeath))

\* GameManager.resolve_combat_with_assignments on one zone: the zone after
\* the combat.  attacker_side is the side that does not assign blockers.
resolve_combat_with_assignments(zone, assignments, attacker_side, uid) ==
    LET defender_side == Other(attacker_side)
        attacker_cards == zone[attacker_side]
        defender_cards == zone[defender_side]
        modifiers == process_combat_modifiers(attacker_cards, defender_cards)
        hurt_atk == DamagedAttackers(attacker_cards, defender_cards, assignments,
                                     modifiers, attacker_side)
        hurt_def == DamagedDefenders(attacker_cards, defender_cards, assignments,
                                     modifiers, attacker_side)
    IN  IF attacker_cards = <<>> \/ defender_cards = <<>> THEN zone
        ELSE [zone EXCEPT ![attacker_side] = RemoveDead(hurt_atk, uid),
                          ![defender_side] = RemoveDead(hurt_def, uid + SummonCount(hurt_atk))]

\* The identities resolve_combat_with_assignments consumes (Skeletons summoned).
CombatSummons(zone, assignments, attacker_side) ==
    LET defender_side == Other(attacker_side)
        attacker_cards == zone[attacker_side]
        defender_cards == zone[defender_side]
        modifiers == process_combat_modifiers(attacker_cards, defender_cards)
    IN  IF attacker_cards = <<>> \/ defender_cards = <<>> THEN 0
        ELSE SummonCount(DamagedAttackers(attacker_cards, defender_cards, assignments,
                                          modifiers, attacker_side))
             + SummonCount(DamagedDefenders(attacker_cards, defender_cards, assignments,
                                            modifiers, attacker_side))

\* ----------------------------------------------------------------- actions
\* draw_card: handle_action lines 279-282 with GameManager.draw_card_from_deck
\* and draw_card_to_queue.  The card leaves the deck before the catalog lookup.
DrawCard(player, card_id) ==
    LET permitted == NormalActionAllowed(player) /\ can_draw_card(player)
        removed == permitted /\ card_id \in Range(player_decks[player])
        success == removed /\ card_id \in DOMAIN CARDS_DATA
    IN  /\ player_decks' = IF removed
                           THEN [player_decks EXCEPT ![player] = RemoveFirst(@, card_id)]
                           ELSE player_decks
        /\ hand_reinforcement_queue' =
               IF success
               THEN Append(hand_reinforcement_queue,
                           [card_id |-> card_id, turns_remaining |-> CARDS_DATA[card_id].cost,
                            player |-> player])
               ELSE hand_reinforcement_queue
        /\ has_drawn' = IF success THEN [has_drawn EXCEPT ![player] = TRUE] ELSE has_drawn
        /\ phase_draws' = IF success THEN phase_draws + 1 ELSE phase_draws
        /\ last' = IF NormalActionAllowed(player) THEN Result(player, "draw_card", success)
                   ELSE Returned(player, "draw_card")
        /\ UNCHANGED <<current_turn, current_player, has_passed, has_moved, battlefield_cards,
                       first_placer, player_hands, location_control, capture_power,
                       session_vars, next_uid, phase_moves>>

\* Variant of the first-placer record that follows the latest arrival.
track_latest_placer(location, player) == [first_placer EXCEPT ![location] = player]

\* "Track first placer in middle zone" of place_card_on_battlefield and
\* move_card: written only while the entry is None.
track_first_placer(location, player) ==
    IF first_placer[location] = None THEN [first_placer EXCEPT ![location] = player]
    ELSE first_placer

\* place_card: handle_action lines 284-291 with place_card_on_battlefield
\* (append, first_placer, process_on_play) and remove_card_from_hand.
PlaceCard(player, card_id, location, zone) ==
    LET success == /\ NormalActionAllowed(player)
                   /\ card_id \in DOMAIN CARDS_DATA
                   /\ location \in LocSet
                   /\ zone \in ZoneSet
                   /\ can_place_at_location(location, player)
        card_entry == NewCard(next_uid, card_id)
        zone_data == battlefield_cards[location][zone]
        placed == [zone_data EXCEPT ![player] = Append(@, card_entry)]
    IN  /\ battlefield_cards' =
               IF success
               THEN [battlefield_cards EXCEPT ![location][zone] =
                        process_on_play(placed, card_entry, player)]
               ELSE battlefield_cards
        /\ first_placer' =
               IF success /\ zone = "middle_zone" THEN track_first_placer(location, player)
               ELSE first_placer
        /\ player_hands' = IF success
                           THEN [player_hands EXCEPT ![player] = RemoveFirst(@, card_id)]
                           ELSE player_hands
        /\ next_uid' = IF success THEN next_uid + 1 ELSE next_uid
        /\ last' = IF NormalActionAllowed(player) THEN Result(player, "place_card", success)
                   ELSE Returned(player, "place_card")
        /\ UNCHANGED <<current_turn, current_player, has_passed, has_drawn, has_moved,
                       hand_reinforcement_queue, player_decks, location_control,
                       capture_power, session_vars, phase_draws, phase_moves>>

\* GameManager.are_adjacent
are_adjacent(loc1, loc2) == loc1 \in DOMAIN ADJACENCY /\ loc2 \in ADJACENCY[loc1]

\* move_card lines 771-787 (from_zone is None): the zone and the position
\* (1-based) the running index selects; zone None when no card is found.
\* A negative index stops at attacker_zone and counts from the end of its list
\* (zone None here when that raises, see RaisesIndexError).
LocateCard(from_loc, player_key, card_index) ==
    LET la == Len(battlefield_cards[from_loc]["attacker_zone"][player_key])
        lm == Len(battlefield_cards[from_loc]["middle_zone"][player_key])
        ld == Len(battlefield_cards[from_loc]["defender_zone"][player_key])
    IN  IF card_index < 0
        THEN (IF -card_index <= la
              THEN [zone |-> "attacker_zone", idx |-> la + card_index + 1]
              ELSE [zone |-> None, idx |-> 0])
        ELSE IF card_index < la THEN [zone |-> "attacker_zone", idx |-> card_index + 1]
        ELSE IF card_index < la + lm THEN [zone |-> "middle_zone", idx |-> card_index - la + 1]
        ELSE IF card_index < la + lm + ld
             THEN [zone |-> "defender_zone", idx |-> card_index - la - lm + 1]
        ELSE [zone |-> None, idx |-> 0]

\* Variant of line 798 that leaves the source list as it was.
KeepSource(source_cards, idx) == source_cards

\* move_card lines 777-781 with a negative index: the first zone's test
\* running_idx + len(zone_cards) > card_index holds, and zone_cards[local_idx]
\* raises IndexError when the attacker_zone list is shorter than -card_index.
RaisesIndexError(from_loc, player_key, card_index) ==
    /\ card_index < 0
    /\ -card_index > Len(battlefield_cards[from_loc]["attacker_zone"][player_key])

\* line 798: source_cards.pop(card_index)
PopSource(source_cards, idx) == RemoveAt(source_cards, idx)

\* move_card: handle_action lines 293-298 with GameManager.move_card; the
\* session passes no zones, so the unit lands in middle_zone of to_loc.
MoveCard(player, from_loc, to_loc, card_index) ==
    LET reachable == /\ NormalActionAllowed(player)
                     /\ from_loc \in LocSet /\ to_loc \in LocSet
                     /\ are_adjacent(from_loc, to_loc)
                     /\ can_place_at_location(to_loc, player)
        where == IF reachable THEN LocateCard(from_loc, player, card_index)
                 ELSE [zone |-> None, idx |-> 0]
        found == where.zone # None
        card == battlefield_cards[from_loc][where.zone][player][where.idx]
        success == found /\ can_specific_card_move(card)
        moved == [card EXCEPT !.has_moved_this_turn = TRUE]
    IN  /\ battlefield_cards' =
               IF success
               THEN [battlefield_cards EXCEPT
                        ![from_loc][where.zone][player] = PopSource(@, where.idx),
                        ![to_loc]["middle_zone"][player] = Append(@, moved)]
               ELSE battlefield_cards
        /\ first_placer' = IF success THEN track_first_placer(to_loc, player) ELSE first_placer
        /\ phase_moves' = IF success THEN phase_moves + 1 ELSE phase_moves
        /\ last' = IF ~NormalActionAllowed(player) THEN Returned(player, "move_card")
                   ELSE IF reachable /\ RaisesIndexError(from_loc, player, card_index)
                   THEN Raised(player, "move_card")
                   ELSE Result(player, "move_card", success)
        /\ UNCHANGED <<current_turn, current_player, has_passed, has_drawn, has_moved,
                       hand_reinforcement_queue, player_hands, player_decks,
                       location_control, capture_power, session_vars, next_uid, phase_draws>>

\* The session part of the end_turn branch (lines 306-331) and of
\* _handle_combat_assignments (lines 410-426): the winner the session records
\* once no combat zone is pending, else the winner it already had.
WinnerAfter(pending, field, hands, queue) ==
    IF pending = <<>> /\ check_win_condition(field, hands, queue) # None
    THEN check_win_condition(field, hands, queue)
    ELSE winner

\* end_turn: handle_action lines 300-331 with GameManager.end_turn.  The
\* defender's end_turn runs the whole turn resolution: process_turn,
\* process_end_of_turn, accumulate_capture_power, check_captures, flag reset,
\* turn increment, untap; the session then enumerates the combat zones.
EndTurn(player) ==
    LET permitted == NormalActionAllowed(player)
        resolves == permitted /\ player = "defender" /\ has_passed["attacker"]
        healed == process_end_of_turn(battlefield_cards)
        gained == accumulate_capture_power(healed, location_control, capture_power)
        field == untap_cards(healed, "attacker")
        queue == process_turn_queue(hand_reinforcement_queue)
        hands == process_turn_hands(hand_reinforcement_queue, player_hands)
        pending == CombatZones(field)
    IN  /\ last' = IF permitted THEN Result(player, "end_turn", TRUE)
                   ELSE Returned(player, "end_turn")
        /\ IF ~permitted
           THEN UNCHANGED <<engine_vars, session_vars, next_uid, phase_draws, phase_moves>>
           ELSE IF player = "attacker"
           THEN /\ has_passed' = [has_passed EXCEPT !["attacker"] = TRUE]
                /\ current_player' = "defender"
                /\ has_drawn' = [has_drawn EXCEPT !["defender"] = FALSE]
                /\ has_moved' = [has_moved EXCEPT !["defender"] = FALSE]
                /\ battlefield_cards' = untap_cards(battlefield_cards, "defender")
                /\ phase_draws' = 0
                /\ phase_moves' = 0
                /\ UNCHANGED <<current_turn, hand_reinforcement_queue, first_placer,
                               player_hands, player_decks, location_control, capture_power,
                               session_vars, next_uid>>
           ELSE IF ~resolves
           THEN /\ has_passed' = [has_passed EXCEPT !["defender"] = TRUE]
                /\ UNCHANGED <<current_turn, current_player, has_drawn, has_moved,
                               hand_reinforcement_queue, battlefield_cards, first_placer,
                               player_hands, player_decks, location_control, capture_power,
                               session_vars, next_uid, phase_draws, phase_moves>>
           ELSE /\ hand_reinforcement_queue' = queue
                /\ player_hands' = hands
                /\ location_control' = check_captures_control(healed, location_control, gained)
                /\ capture_power' = check_captures_power(healed, location_control, gained)
                /\ has_passed' = [s \in Sides |-> FALSE]
                /\ has_drawn' = [s \in Sides |-> FALSE]
                /\ has_moved' = [s \in Sides |-> FALSE]
                /\ current_turn' = current_turn + 1
                /\ current_player' = "attacker"
                /\ battlefield_cards' = field
                /\ pending_combat_zones' = pending
                /\ awaiting_blocker_selection' = IF pending # <<>> THEN pending[1] ELSE Absent
                /\ winner' = WinnerAfter(pending, field, hands, queue)
                /\ is_active' = (is_active /\ ~(pending = <<>>
                                     /\ check_win_condition(field, hands, queue) # None))
                /\ phase_draws' = 0
                /\ phase_moves' = 0
                /\ UNCHANGED <<first_placer, player_decks, next_uid>>

\* Variant of the sender check that asks for the acting side.
ActingSideAllowed(player) ==
    /\ awaiting_blocker_selection # Absent
    /\ player = current_player

\* _handle_combat_assignments lines 344-357: the session awaits a pair and the
\* sender is the side get_blocker_side names for it.
AssignmentAllowed(player) ==
    /\ awaiting_blocker_selection # Absent
    /\ player = get_blocker_side(awaiting_blocker_selection[1], awaiting_blocker_selection[2])

\* combat_assignments: _handle_combat_assignments with
\* resolve_combat_with_assignments; the awaited pair leaves the pending list.
CombatAssignments(player, assignments) ==
    LET success == AssignmentAllowed(player)
        location == awaiting_blocker_selection[1]
        zone == awaiting_blocker_selection[2]
        attacker_side == Other(player)
        zone_data == battlefield_cards[location][zone]
        field == [battlefield_cards EXCEPT ![location][zone] =
                     resolve_combat_with_assignments(zone_data, assignments, attacker_side, next_uid)]
        pending == RemoveFirst(pending_combat_zones, awaiting_blocker_selection)
        decided == pending = <<>>
                   /\ check_win_condition(field, player_hands, hand_reinforcement_queue) # None
    IN  /\ last' = IF success THEN Result(player, "combat_assignments", TRUE)
                   ELSE Returned(player, "combat_assignments")
        /\ IF ~success
           THEN UNCHANGED <<engine_vars, session_vars, next_uid, phase_draws, phase_moves>>
           ELSE /\ battlefield_cards' = field
                /\ next_uid' = next_uid + CombatSummons(zone_data, assignments, attacker_side)
                /\ pending_combat_zones' = pending
                /\ awaiting_blocker_selection' = IF pending # <<>> THEN pending[1] ELSE Absent
                /\ winner' = WinnerAfter(pending, field, player_hands, hand_reinforcement_queue)
                /\ is_active' = (is_active /\ ~decided)
                /\ UNCHANGED <<current_turn, current_player, has_passed, has_drawn, has_moved,
                               hand_reinforcement_queue, first_placer, player_hands,
                               player_decks, location_control, capture_power,
                               phase_draws, phase_moves>>

\* combat_assignments with a payload whose "assignments" object has a key that
\* is not a number: the checks of lines 344-357 run first; then
\* {int(k): v ...} (line 363) raises ValueError before anything is stored.
MalformedAssignments(player) ==
    /\ last' = IF AssignmentAllowed(player) THEN Raised(player, "combat_assignments")
               ELSE Returned(player, "combat_assignments")
    /\ UNCHANGED <<engine_vars, session_vars, next_uid, phase_draws, phase_moves>>

\* Variant of the rejoin that starts the session's combat state afresh.
RestartedSession == <<None, TRUE, <<>>, Absent>>

\* The session fields after the auth branch of handle_connection has
\* re-attached a user (lines 476-489): the branch writes game.connections only.
RejoinedSession == <<winner, is_active, pending_combat_zones, awaiting_blocker_selection>>

\* auth by a user of a live match on a new connection: the session's
\* connection of that user is replaced, game_rejoined is sent and
\* broadcast_state resends the projected state.
Reconnect(player) ==
    /\ winner' = RejoinedSession[1]
    /\ is_active' = RejoinedSession[2]
    /\ pending_combat_zones' = RejoinedSession[3]
    /\ awaiting_blocker_selection' = RejoinedSession[4]
    /\ last' = Result(player, "auth", TRUE)
    /\ UNCHANGED <<engine_vars, next_uid, phase_draws, phase_moves>>

\* ------------------------------------------------ fog-of-war projection
\* GameSession._serialize_card for a battlefield unit: the fields sent.
SerializeCard(card) ==
    [card_id |-> card.card_id,
     attack |-> CARDS_DATA[card.card_id].attack,
     health |-> CARDS_DATA[card.card_id].health,
     cost |-> CARDS_DATA[card.card_id].cost,
     subtype |-> CARDS_DATA[card.card_id].subtype,
     current_health |-> card.current_health,
     is_tapped |-> card.is_tapped,
     turn_placed |-> card.turn_placed,
     has_moved_this_turn |-> card.has_moved_this_turn,
     can_move |-> (card.turn_placed < current_turn /\ ~card.has_moved_this_turn)]

SerializeCards(cards) == [i \in 1..Len(cards) |-> SerializeCard(cards[i])]

\* _serialize_card for a hand entry ({card_id, card_info}: no unit state).
SerializeHandCard(card_id) ==
    [card_id |-> card_id,
     attack |-> CARDS_DATA[card_id].attack,
     health |-> CARDS_DATA[card_id].health,
     cost |-> CARDS_DATA[card_id].cost,
     subtype |-> CARDS_DATA[card_id].subtype,
     current_health |-> None,
     is_tapped |-> FALSE,
     turn_placed |-> 0,
     has_moved_this_turn |-> FALSE,
     can_move |-> (0 < current_turn)]

\* Lines 81-107: the viewer sees a location where it has a unit (a Scout unit
\* is a unit of its own there).
has_presence(location, player_key) ==
    \E z \in ZoneSet : battlefield_cards[location][z][player_key] # <<>>

has_scout(location, player_key) ==
    \E z \in ZoneSet : \E i \in 1..Len(battlefield_cards[location][z][player_key]) :
        "Scout" \in get_subtypes(battlefield_cards[location][z][player_key][i])

\* Variant of the visibility predicate that shows every location.
can_see_all(location, player_key) == TRUE

can_see(location, player_key) == has_presence(location, player_key) \/ has_scout(location, player_key)

\* Variant of get_hand_reinforcements that returns the whole queue.
all_reinforcements(queue, player) == queue

\* GameManager.get_hand_reinforcements
get_hand_reinforcements(queue, player) == SelectSeq(queue, LAMBDA e : e.player = player)

\* GameManager.get_location_capture_info as sent (lines 124-135).
CaptureInfo(location) ==
    IF location \notin CAPTURABLE_LOCATIONS
    THEN [capturable |-> FALSE, controller |-> location_control[location]]
    ELSE [capturable |-> TRUE, controller |-> location_control[location],
          attacker_power |-> capture_power[location]["attacker"],
          defender_power |-> capture_power[location]["defender"],
          attacker_threshold |-> get_capture_threshold(battlefield_cards, location, "attacker"),
          defender_threshold |-> get_capture_threshold(battlefield_cards, location, "defender")]

\* Lines 153-189: the combat_state block while a pair is awaited.
CombatState(player_key) ==
    IF awaiting_blocker_selection = Absent THEN Absent
    ELSE LET loc == awaiting_blocker_selection[1]
             zone == awaiting_blocker_selection[2]
             zone_data == battlefield_cards[loc][zone]
             blocker_side == get_blocker_side(loc, zone)
             is_your_combat == (player_key = blocker_side)
         IN  Some([phase |-> "assign_blockers",
              location |-> loc,
              zone |-> zone,
              blocker_side |-> blocker_side,
              is_your_turn_to_assign |-> is_your_combat,
              attackers |-> IF blocker_side = "attacker"
                            THEN SerializeCards(zone_data["defender"])
                            ELSE SerializeCards(zone_data["attacker"]),
              your_blockers |-> IF ~is_your_combat THEN <<>>
                                ELSE IF blocker_side = "attacker"
                                     THEN SerializeCards(zone_data["attacker"])
                                     ELSE SerializeCards(zone_data["defender"])])

\* GameSession.get_game_state_for_player, given the hands, decks and queue it reads.
GameStateFrom(player_key, hands, decks, queue) ==
    LET enemy_key == Other(player_key)
    IN  [turn |-> current_turn,
         current_player |-> current_player,
         your_role |-> player_key,
         is_your_turn |-> (current_player = player_key),
         battlefield |->
            [l \in LocSet |->
                [zones |-> [z \in ZoneSet |->
                     [own_cards |-> SerializeCards(battlefield_cards[l][z][player_key]),
                      enemy_cards |-> IF can_see(l, player_key)
                                      THEN Some(SerializeCards(battlefield_cards[l][z][enemy_key]))
                                      ELSE Absent,
                      enemy_count |-> Len(battlefield_cards[l][z][enemy_key]),
                      first_placer |-> IF z = "middle_zone" THEN first_placer[l] ELSE None]],
                 can_see |-> can_see(l, player_key),
                 controller |-> location_control[l],
                 capture_info |-> CaptureInfo(l)]],
         hand |-> [i \in 1..Len(hands[player_key]) |-> SerializeHandCard(hands[player_key][i])],
         reinforcements |->
            [i \in 1..Len(get_hand_reinforcements(queue, player_key)) |->
                [card_id |-> get_hand_reinforcements(queue, player_key)[i].card_id,
                 turns_remaining |-> get_hand_reinforcements(queue, player_key)[i].turns_remaining]],
         deck_count |-> Len(decks[player_key]),
         can_draw |-> can_draw_card(player_key),
         deck_cards |-> decks[player_key],
         combat_state |-> CombatState(player_key),
         winner |-> winner]

\* The game_state payload broadcast_state sends to a player.
get_game_state_for_player(player_key) ==
    GameStateFrom(player_key, player_hands, player_decks, hand_reinforcement_queue)

\* ------------------------------------------------------------ specification
\* The inputs the two clients send, drawn from small sets.
\* place_card messages: <<card_id, location, zone>>.
PlaceInputs ==
    {<<"Avatar", "Gate", "middle_zone">>,
     <<"Assassin", "Gate", "middle_zone">>,
     <<"Pikeman", "Gate", "defender_zone">>}
\* move_card messages: <<from_location, to_location, card_index>>.
MoveInputs == {<<"Gate", "Camp", 0>>, <<"Gate", "Courtyard", 0>>, <<"Gate", "Camp", 1>>}
DrawIds == {"Militia"}
MaxBlockList == 2

\* Lists of at most MaxBlockList blocker indices below n (0-based).
BlockLists(n) == UNION {[1..k -> 0..(n - 1)] : k \in 0..MaxBlockList}

\* The assignment maps a client can send for the awaited pair: one blocker
\* list per attacker index.
AssignmentChoices ==
    IF awaiting_blocker_selection = Absent THEN {<<>>}
    ELSE LET zone_data == battlefield_cards[awaiting_blocker_selection[1]][awaiting_blocker_selection[2]]
             blocker_side == get_blocker_side(awaiting_blocker_selection[1], awaiting_blocker_selection[2])
             n_att == IF blocker_side = None THEN 0 ELSE Len(zone_data[Other(blocker_side)])
             n_blk == IF blocker_side = None THEN 0 ELSE Len(zone_data[blocker_side])
         IN  [0..(n_att - 1) -> BlockLists(n_blk)]

Init == InitWith(<<"Militia", "Militia">>, <<"Militia", "Militia">>) /\ net = QuietNet(None)

Next ==
    \/ \E player \in Sides, card_id \in DrawIds : DrawCard(player, card_id) /\ UNCHANGED net
    \/ \E player \in Sides, m \in PlaceInputs :
           /\ next_uid <= MaxUnits
           /\ PlaceCard(player, m[1], m[2], m[3])
           /\ UNCHANGED net
    \/ \E player \in Sides, m \in MoveInputs : MoveCard(player, m[1], m[2], m[3]) /\ UNCHANGED net
    \/ \E player \in Sides :
           /\ (player = "defender" /\ NormalActionAllowed(player)) => current_turn < MaxTurn
           /\ EndTurn(player)
           /\ UNCHANGED net
    \/ \E player \in Sides, assignments \in AssignmentChoices : CombatAssignments(player, assignments) /\ UNCHANGED net

Spec == Init /\ [][Next]_vars

\* A second environment for combat over several zones: no draws and no moves,
\* each side sends the placements of one opening, up to MaxCombatUnits units.
MaxCombatUnits == 4

\* <<player, card_id, location, zone>>
CombatPlaceInputs ==
    {<<"attacker", "Assassin", "Gate", "middle_zone">>,
     <<"attacker", "Pikeman", "Gate", "defender_zone">>,
     <<"defender", "Avatar", "Gate", "middle_zone">>,
     <<"defender", "Pikeman", "Gate", "defender_zone">>}

NextCombat ==
    \/ \E m \in CombatPlaceInputs :
           /\ next_uid <= MaxCombatUnits
           /\ PlaceCard(m[1], m[2], m[3], m[4])
           /\ UNCHANGED net
    \/ \E player \in Sides :
           /\ (player = "defender" /\ NormalActionAllowed(player)) => current_turn < MaxTurn
           /\ EndTurn(player)
           /\ UNCHANGED net
    \/ \E player \in Sides, assignments \in AssignmentChoices : CombatAssignments(player, assignments) /\ UNCHANGED net

SpecCombat == Init /\ [][NextCombat]_vars

\* A third environment for captures over several turns: no draws, placements
\* and moves around the Gate, up to MaxCaptureUnits units and MaxCaptureTurn turns.
MaxCaptureTurn == 4
MaxCaptureUnits == 2

\* <<card_id, location, zone>>
CapturePlaceInputs ==
    {<<"Avatar", "Gate", "middle_zone">>,
     <<"Pikeman", "Gate", "defender_zone">>,
     <<"Militia", "Courtyard", "middle_zone">>,
     <<"Militia", "Camp", "middle_zone">>}

\* <<from_location, to_location, card_index>>
CaptureMoveInputs == {<<"Gate", "Courtyard", 0>>, <<"Gate", "Camp", 0>>}

NextCapture ==
    \/ \E player \in Sides, m \in CapturePlaceInputs :
           /\ next_uid <= MaxCaptureUnits
           /\ PlaceCard(player, m[1], m[2], m[3])
           /\ UNCHANGED net
    \/ \E player \in Sides, m \in CaptureMoveInputs : MoveCard(player, m[1], m[2], m[3]) /\ UNCHANGED net
    \/ \E player \in Sides :
           /\ (player = "defender" /\ NormalActionAllowed(player)) => current_turn < MaxCaptureTurn
           /\ EndTurn(player)
           /\ UNCHANGED net
    \/ \E player \in Sides, assignments \in AssignmentChoices : CombatAssignments(player, assignments) /\ UNCHANGED net

SpecCapture == Init /\ [][NextCapture]_vars

\* A fourth environment for move_card requests: no draws, placements in two
\* zones of the Gate, and moves with adjacent, non-adjacent, identical and
\* unknown destinations and with negative and out-of-range indices.
MaxMoveUnits == 2

\* <<card_id, location, zone>>
MovePlaceInputs ==
    {<<"Pikeman", "Gate", "attacker_zone">>,
     <<"Militia", "Gate", "middle_zone">>}

\* <<from_location, to_location, card_index>>
MoveRequestInputs ==
    {<<"Gate", "Camp", 0>>, <<"Gate", "Camp", 1>>, <<"Gate", "Camp", 2>>,
     <<"Gate", "Camp", -1>>, <<"Gate", "Camp", -2>>,
     <<"Gate", "Keep", 0>>, <<"Gate", "Gate", 0>>, <<"Gate", "Nowhere", 0>>}

NextMove ==
    \/ \E player \in Sides, m \in MovePlaceInputs :
           /\ next_uid <= MaxMoveUnits
           /\ PlaceCard(player, m[1], m[2], m[3])
           /\ UNCHANGED net
    \/ \E player \in Sides, m \in MoveRequestInputs : MoveCard(player, m[1], m[2], m[3]) /\ UNCHANGED net
    \/ \E player \in Sides :
           /\ (player = "defender" /\ NormalActionAllowed(player)) => current_turn < MaxTurn
           /\ EndTurn(player)
           /\ UNCHANGED net
    \/ \E player \in Sides, assignments \in AssignmentChoices : CombatAssignments(player, assignments) /\ UNCHANGED net

SpecMove == Init /\ [][NextMove]_vars

\* A fifth environment for the reinforcement queue: decks with a cost-1 and a
\* cost-2 card, draws of both, one placement, up to MaxDrawTurn turns.  The
\* attacker's deck also holds "Knight", an id of the default decks that the
\* catalog does not know.
MaxDrawTurn == 3
MaxDrawUnits == 1

QueueDrawIds == {"Militia", "Footman", "Knight"}

\* <<card_id, location, zone>>
DrawPlaceInputs == {<<"Militia", "Gate", "middle_zone">>}

InitDraw ==
    /\ InitWith(<<"Footman", "Militia", "Knight">>, <<"Militia", "Footman">>)
    /\ net = QuietNet(None)

NextDraw ==
    \/ \E player \in Sides, card_id \in QueueDrawIds : DrawCard(player, card_id) /\ UNCHANGED net
    \/ \E player \in Sides, m \in DrawPlaceInputs :
           /\ next_uid <= MaxDrawUnits
           /\ PlaceCard(player, m[1], m[2], m[3])
           /\ UNCHANGED net
    \/ \E player \in Sides :
           /\ (player = "defender" /\ NormalActionAllowed(player)) => current_turn < MaxDrawTurn
           /\ EndTurn(player)
           /\ UNCHANGED net

SpecDraw == InitDraw /\ [][NextDraw]_vars

\* A sixth environment for blocker assignments in one zone: a Taunt unit and a
\* plain unit of the attacker, who places first and so blocks, against a
\* Necromancer and a Pikeman of the defender in the Gate's middle_zone, up to
\* MaxBlockUnits units.
MaxBlockUnits == 4

\* <<player, card_id, location, zone>>
BlockPlaceInputs ==
    {<<"attacker", "Shieldbearer", "Gate", "middle_zone">>,
     <<"attacker", "Militia", "Gate", "middle_zone">>,
     <<"defender", "Necromancer", "Gate", "middle_zone">>,
     <<"defender", "Pikeman", "Gate", "middle_zone">>}

NextBlock ==
    \/ \E m \in BlockPlaceInputs :
           /\ next_uid <= MaxBlockUnits
           /\ PlaceCard(m[1], m[2], m[3], m[4])
           /\ UNCHANGED net
    \/ \E player \in Sides :
           /\ (player = "defender" /\ NormalActionAllowed(player)) => current_turn < MaxTurn
           /\ EndTurn(player)
           /\ UNCHANGED net
    \/ \E player \in Sides, assignments \in AssignmentChoices : CombatAssignments(player, assignments) /\ UNCHANGED net
    \/ \E player \in Sides : MalformedAssignments(player) /\ UNCHANGED net
    \/ \E player \in Sides : Reconnect(player) /\ UNCHANGED net

SpecBlock == Init /\ [][NextBlock]_vars

\* A seventh environment for the two connection handlers of a match.  A
\* handler runs without interruption between two awaits; handle_action awaits
\* only in broadcast_state (one ws.send per connection, in the order of
\* game.connections) and handle_connection then awaits the send of the
\* action_result.  A send to the stalled connection never completes.
\* game_action messages: <<action, card_id, location, zone>>
MaxNetUnits == 2
NetInputs ==
    {<<"draw_card", "Militia", "", "">>, <<"place_card", "Militia", "Gate", "middle_zone">>,
     <<"end_turn", "", "", "">>, <<"combat_assignments", "", "", "">>}

\* game.connections in insertion order (_handle_find_match: user, opponent).
CONNECTION_ORDER == <<"attacker", "defender">>

\* Variant with an await between the checks of handle_action and the engine call.
AwaitsInsideAction == TRUE

\* Whether handle_action awaits between its checks and the engine call that
\* applies the action (lines 258-331 hold no await before broadcast_state).
AwaitsBeforeMutation == FALSE

\* handle_action on a game_action message: the checks and the engine call.
\* A combat_assignments message carries the empty map: no attacker is blocked.
Handle(player, msg) ==
    CASE msg[1] = "draw_card" -> DrawCard(player, msg[2])
      [] msg[1] = "place_card" -> PlaceCard(player, msg[2], msg[3], msg[4])
      [] msg[1] = "end_turn" -> EndTurn(player)
      [] OTHER -> CombatAssignments(player, CHOOSE a \in AssignmentChoices : \A i \in DOMAIN a : a[i] = <<>>)

\* Where the handler stands after handle_action's synchronous part: in the
\* broadcast when the handler reached it, else at the send of the result.
AfterAction(msg, broadcasts) ==
    IF broadcasts THEN [at |-> "state", k |-> 1, msg |-> msg]
    ELSE [at |-> "result", k |-> 0, msg |-> msg]

\* An idle handler reads a game_action and runs handle_action up to its first await.
Receive(player, msg) ==
    /\ net.pc[player] = Idle
    /\ IF AwaitsBeforeMutation
       THEN /\ net' = [net EXCEPT !.pc[player] = [at |-> "validated", k |-> 0, msg |-> msg]]
            /\ UNCHANGED <<engine_vars, session_vars, history_vars>>
       ELSE /\ Handle(player, msg)
            /\ net' = [net EXCEPT !.pc[player] = AfterAction(msg, last'.broadcast)]

\* A handler resumes at its await: the pending ws.send completes (never for the
\* stalled connection) and the handler runs to its next await, or back to idle
\* after the action_result.
Advance(player) ==
    LET pos == net.pc[player]
    IN  /\ pos # Idle
        /\ IF pos.at = "validated"
           THEN /\ Handle(player, pos.msg)
                /\ net' = [net EXCEPT !.pc[player] = AfterAction(pos.msg, last'.broadcast)]
           ELSE /\ net.stalled # (IF pos.at = "state" THEN CONNECTION_ORDER[pos.k] ELSE player)
                /\ net' = [net EXCEPT !.pc[player] =
                              IF pos.at = "state" /\ pos.k < Len(CONNECTION_ORDER)
                              THEN [pos EXCEPT !.k = @ + 1]
                              ELSE IF pos.at = "state" THEN [pos EXCEPT !.at = "result", !.k = 0]
                              ELSE Idle]
                /\ UNCHANGED <<engine_vars, session_vars, history_vars>>

InitNet ==
    /\ InitWith(<<"Militia", "Militia">>, <<"Militia", "Militia">>)
    /\ \E stalled \in Sides \cup {None} : net = QuietNet(stalled)

NextNet ==
    \/ \E player \in Sides, msg \in NetInputs :
           /\ (msg[1] = "end_turn" /\ player = "defender" /\ NormalActionAllowed(player))
                  => current_turn < MaxTurn
           /\ (msg[1] = "place_card") => (next_uid <= MaxNetUnits)
           /\ Receive(player, msg)
    \/ \E player \in Sides : Advance(player)

\* The event loop resumes every handler whose send has completed.
SpecNet == InitNet /\ [][NextNet]_vars /\ \A player \in Sides : WF_vars(Advance(player))

\* An eighth environment for combat damage with attack modifiers: the attacker
\* places first at the Gate (and so assigns the blockers of its middle zone),
\* with a Charge unit on the blocking side; a second pair of the Gate can
\* be pending behind the middle zone.
MaxDamageUnits == 4
DamagePlaceInputs ==
    {<<"attacker", "Heavy_Cavalry", "Gate", "middle_zone">>,
     <<"attacker", "Militia", "Gate", "middle_zone">>,
     <<"defender", "Militia", "Gate", "middle_zone">>,
     <<"defender", "Necromancer", "Gate", "middle_zone">>,
     <<"attacker", "Militia", "Gate", "defender_zone">>,
     <<"defender", "Heavy_Cavalry", "Gate", "defender_zone">>}

NextDamage ==
    \/ \E m \in DamagePlaceInputs :
           /\ next_uid <= MaxDamageUnits
           /\ PlaceCard(m[1], m[2], m[3], m[4])
           /\ UNCHANGED net
    \/ \E player \in Sides :
           /\ (player = "defender" /\ NormalActionAllowed(player)) => current_turn < MaxTurn
           /\ EndTurn(player)
           /\ UNCHANGED net
    \/ \E player \in Sides, assignments \in AssignmentChoices : CombatAssignments(player, assignments) /\ UNCHANGED net

SpecDamage == Init /\ [][NextDamage]_vars

\* A ninth environment for a location both sides contest: one unit of each
\* side in the Gate's middle zone over MaxContestTurn turns.
MaxContestTurn == 3
MaxContestUnits == 2
ContestPlaceInputs ==
    {<<"attacker", "Assassin", "Gate", "middle_zone">>,
     <<"attacker", "Crossbowman", "Gate", "middle_zone">>,
     <<"defender", "Battle_Mage", "Gate", "middle_zone">>,
     <<"defender", "Crossbowman", "Gate", "middle_zone">>}

NextContest ==
    \/ \E m \in ContestPlaceInputs :
           /\ next_uid <= MaxContestUnits
           /\ PlaceCard(m[1], m[2], m[3], m[4])
           /\ UNCHANGED net
    \/ \E player \in Sides :
           /\ (player = "defender" /\ NormalActionAllowed(player)) => current_turn < MaxContestTurn
           /\ EndTurn(player)
           /\ UNCHANGED net
    \/ \E player \in Sides, assignments \in AssignmentChoices : CombatAssignments(player, assignments) /\ UNCHANGED net

SpecContest == Init /\ [][NextContest]_vars

\* ------------------------------------------------------------------ claims
NormalActions == {"draw_card", "place_card", "move_card", "end_turn"}

\* The positions <<location, zone, side, index>> that hold the instance uid.
PositionsOf(uid) ==
    {pos \in LocSet \X ZoneSet \X Sides \X (1..(MaxUnits + MaxCombatUnits + 1)) :
        /\ pos[4] <= Len(battlefield_cards[pos[1]][pos[2]][pos[3]])
        /\ battlefield_cards[pos[1]][pos[2]][pos[3]][pos[4]].uid = uid}

\* All units of a side on the battlefield, as a count.
UnitCount(side) ==
    SumSeq([i \in 1..Len(LOCATIONS) |->
        SumSeq([j \in 1..Len(ZONES) |-> Len(battlefield_cards[LOCATIONS[i]][ZONES[j]][side])])])

\* C1: after any sequence of accepted actions every card instance on the
\* battlefield is held in exactly one (location, zone, side) list, at one
\* position: no instance appears twice.
C1_OneListPerInstance ==
    \A uid \in 1..(next_uid - 1) : Cardinality(PositionsOf(uid)) <= 1

\* A unit has just been moved: it stands in the destination's middle_zone and
\* the source location no longer holds it.
C1_Witness ==
    /\ last = Result("attacker", "move_card", TRUE)
    /\ \E i \in 1..Len(battlefield_cards["Camp"]["middle_zone"]["attacker"]) :
           /\ battlefield_cards["Camp"]["middle_zone"]["attacker"][i].has_moved_this_turn
           /\ Cardinality(PositionsOf(battlefield_cards["Camp"]["middle_zone"]["attacker"][i].uid)) = 1

\* C2 as amended: within one phase at most one draw_card succeeds; a draw
\* attempt by a side whose has-drawn flag is set is rejected and leaves the
\* decks, the queue and the flags unchanged; a set flag is cleared only by the
\* turn resolution (the defender's end_turn that increments the turn), which
\* for the defender is the end of its own phase.
C2_OneDrawPerPhase ==
    [][/\ phase_draws' <= 1
       /\ (last'.action = "draw_card" /\ last'.actor \in Sides /\ has_drawn[last'.actor])
              => (~last'.success
                  /\ UNCHANGED <<player_decks, hand_reinforcement_queue, has_drawn>>)
       /\ \A s \in Sides : (has_drawn[s] /\ ~has_drawn'[s])
              => (last' = Result("defender", "end_turn", TRUE)
                  /\ current_turn' = current_turn + 1)]_vars

\* A second draw attempt in the same phase has been rejected with cards left
\* in the deck.
C2_Witness ==
    /\ last = Result("defender", "draw_card", FALSE)
    /\ current_player = "defender"
    /\ awaiting_blocker_selection = Absent
    /\ has_drawn["defender"]
    /\ phase_draws = 1
    /\ player_decks["defender"] # <<>>

\* C2 as stated: at most one draw per phase, further attempts rejected
\* without effect, and a side's flag is cleared only at the step that makes
\* that side the acting side.
C2_AsStated ==
    [][/\ phase_draws' <= 1
       /\ (last'.action = "draw_card" /\ last'.actor \in Sides /\ has_drawn[last'.actor])
              => (~last'.success
                  /\ UNCHANGED <<player_decks, hand_reinforcement_queue, has_drawn>>)
       /\ \A s \in Sides : (has_drawn[s] /\ ~has_drawn'[s])
              => (current_player # s /\ current_player' = s)]_vars

\* C3 as stated: once a move_card has succeeded in a phase, every further
\* move attempt in that phase is rejected and the battlefield is unchanged.
C3_OneMovePerPhase ==
    [][(last'.action = "move_card" /\ phase_moves >= 1)
          => (~last'.success /\ UNCHANGED battlefield_cards)]_vars

\* C4: fog of war.  For each viewer and each location where the viewer has no
\* unit in any zone, the payload built for the viewer has enemy_cards null in
\* every zone of that location and its combat_state block is not about that
\* location: nothing but the count of the opponent's units there is sent.
C4_FogOfWar ==
    \A viewer \in Sides :
        LET payload == get_game_state_for_player(viewer)
        IN  \A location \in LocSet :
                ~has_presence(location, viewer) =>
                    /\ \A z \in ZoneSet :
                           payload.battlefield[location].zones[z].enemy_cards = Absent
                    /\ \/ payload.combat_state = Absent
                       \/ payload.combat_state[1].location # location

\* The opponent has a unit at the Gate, the viewer has none: the payload
\* gives the count and withholds the cards.
C4_Witness ==
    \E viewer \in Sides, z \in ZoneSet :
        /\ ~has_presence("Gate", viewer)
        /\ get_game_state_for_player(viewer).battlefield["Gate"].zones[z].enemy_count > 0
        /\ get_game_state_for_player(viewer).battlefield["Gate"].zones[z].enemy_cards = Absent

\* The payload of a viewer when the opponent's hand and deck are emptied and
\* the opponent's queue entries are dropped.
PayloadWithoutOpponent(viewer) ==
    GameStateFrom(viewer,
                  [player_hands EXCEPT ![Other(viewer)] = <<>>],
                  [player_decks EXCEPT ![Other(viewer)] = <<>>],
                  SelectSeq(hand_reinforcement_queue, LAMBDA e : e.player = viewer))

\* C5: the payload built for a viewer holds the viewer's own hand, deck ids
\* and queue entries and nothing of the opponent's: it has as many hand, deck
\* and reinforcement entries as the viewer owns, and it is the same payload
\* whatever the opponent's hand, deck and queue entries are.
C5_OwnCardsOnly ==
    \A viewer \in Sides :
        LET payload == get_game_state_for_player(viewer)
        IN  /\ payload = PayloadWithoutOpponent(viewer)
            /\ Len(payload.hand) = Len(player_hands[viewer])
            /\ payload.deck_cards = player_decks[viewer]
            /\ Len(payload.reinforcements)
                   = Cardinality({i \in 1..Len(hand_reinforcement_queue) :
                                     hand_reinforcement_queue[i].player = viewer})

\* Both sides have an entry in the queue and the opponent still holds cards
\* in hand and deck.
C5_Witness ==
    \E viewer \in Sides :
        /\ \E i, j \in 1..Len(hand_reinforcement_queue) :
               /\ hand_reinforcement_queue[i].player = viewer
               /\ hand_reinforcement_queue[j].player = Other(viewer)
        /\ player_hands[Other(viewer)] # <<>>
        /\ player_decks[Other(viewer)] # <<>>
        /\ Len(get_game_state_for_player(viewer).reinforcements) = 1

\* C6: a turn resolution hands a capturable location to a side only if that
\* side has a unit in the location's middle_zone; a side at or above its
\* threshold without such a unit gains no control.
C6_CaptureNeedsMiddleUnit ==
    [][\A l \in CAPTURABLE_LOCATIONS, s \in Sides :
          (location_control[l] # s /\ location_control'[l] = s)
              => (/\ battlefield_cards[l]["middle_zone"][s] # <<>>
                  /\ battlefield_cards'[l]["middle_zone"][s] # <<>>)]_vars

\* A resolution has just run with a side at or above its threshold at the
\* Gate and without a middle_zone unit there: the Gate is still uncontrolled.
C6_Witness ==
    /\ last = Result("defender", "end_turn", TRUE)
    /\ current_turn = 2
    /\ \E s \in Sides :
           /\ capture_power["Gate"][s] >= get_capture_threshold(battlefield_cards, "Gate", s)
           /\ battlefield_cards["Gate"]["middle_zone"][s] = <<>>
           /\ location_control["Gate"] = None

\* C7 as stated: when the resolution of a combat zone destroys the defender's
\* last leader (none left in battlefield, hand or queue) while the attacker
\* still has one, the same combat_assignments action sets winner = attacker,
\* however many combat zones are still pending.
C7_WinnerAtLeaderDeath ==
    [][(/\ last'.action = "combat_assignments"
        /\ last'.success
        /\ has_avatar(battlefield_cards, player_hands, hand_reinforcement_queue, "defender")
        /\ ~has_avatar(battlefield_cards', player_hands', hand_reinforcement_queue', "defender")
        /\ has_avatar(battlefield_cards', player_hands', hand_reinforcement_queue', "attacker"))
          => winner' = "attacker"]_vars

\* C8 as stated: after every accepted action, if a side has no leader in
\* battlefield, hand and queue, winner is set to the other side (the side
\* check_win_condition names) before the state is broadcast.
C8_WinnerAfterEveryMutation ==
    [][(/\ last'.success
        /\ check_win_condition(battlefield_cards', player_hands', hand_reinforcement_queue') # None)
          => winner' = check_win_condition(battlefield_cards', player_hands',
                                           hand_reinforcement_queue')]_vars

\* C9: a draw_card, place_card, move_card or end_turn sent by the side that
\* is not the acting side is rejected and changes nothing in the engine
\* (turn, acting side, flags, decks, queue, hands, battlefield, ledger) nor in
\* the session's combat state.
C9_WrongSideRejected ==
    [][(last'.action \in NormalActions /\ last'.actor # current_player)
          => (/\ ~last'.success
              /\ UNCHANGED <<engine_vars, session_vars, next_uid, phase_draws, phase_moves>>)]_vars

\* The side that is not acting has sent a placement outside a combat phase
\* and has been turned down.
C9_Witness ==
    /\ awaiting_blocker_selection = Absent
    /\ last.action = "place_card"
    /\ last.actor = Other(current_player)
    /\ ~last.success
    /\ UnitCount("attacker") + UnitCount("defender") > 0

\* C10: a combat_assignments action is accepted exactly when the session
\* awaits a blocker assignment and the sender is the side get_blocker_side
\* names for the awaited (location, zone), whichever side is acting; a
\* rejected one changes neither the battlefield nor the pending combat zones.
C10_BlockerSideOnly ==
    [][last'.action = "combat_assignments"
          => (/\ last'.success <=>
                     (/\ awaiting_blocker_selection # Absent
                      /\ last'.actor = get_blocker_side(awaiting_blocker_selection[1],
                                                        awaiting_blocker_selection[2]))
              /\ ~last'.success =>
                     UNCHANGED <<battlefield_cards, pending_combat_zones,
                                 awaiting_blocker_selection>>)]_vars

\* An assignment of the defender has been accepted while the attacker is the
\* acting side.
C10_Witness ==
    /\ last = Result("defender", "combat_assignments", TRUE)
    /\ current_player = "attacker"

\* C11: while a blocker assignment is awaited, every draw_card, place_card,
\* move_card and end_turn of either side is rejected and leaves the engine
\* and the session unchanged; a normal action is accepted only when no
\* (location, zone) pair is pending any more.
C11_NoNormalActionInCombat ==
    [][last'.action \in NormalActions
          => (/\ awaiting_blocker_selection # Absent
                    => (/\ ~last'.success
                        /\ UNCHANGED <<engine_vars, session_vars, next_uid>>)
              /\ last'.success
                    => (awaiting_blocker_selection = Absent /\ pending_combat_zones = <<>>))]_vars

\* The acting side has sent an end_turn while a pair is awaited and has been
\* turned down.
C11_Witness ==
    /\ awaiting_blocker_selection # Absent
    /\ last.action = "end_turn"
    /\ last.actor = current_player
    /\ ~last.success

\* C12 as stated: within a turn resolution the combat of every contested
\* (location, zone) pair comes before the capture accounting: a step that
\* accumulates capture power or hands over a location leaves no combat pair
\* of that resolution still to be resolved, so that units the combat destroys
\* are not counted.
C12_CombatBeforeCaptures ==
    [][(capture_power' # capture_power \/ location_control' # location_control)
          => pending_combat_zones' = <<>>]_vars

\* C13: a move_card that names a unit placed in the current turn is rejected
\* and leaves the battlefield unchanged; once the turn counter has passed the
\* unit's turn_placed and its owner is the acting side, its (first) move to an
\* adjacent, accessible location is accepted and the unit arrives there.
C13_NoMoveOnPlacementTurn ==
    [][\A player \in Sides, m \in MoveInputs :
          (/\ MoveCard(player, m[1], m[2], m[3])
           /\ NormalActionAllowed(player)
           /\ LocateCard(m[1], player, m[3]).zone # None)
          => LET where == LocateCard(m[1], player, m[3])
                 card == battlefield_cards[m[1]][where.zone][player][where.idx]
                 arrived == battlefield_cards'[m[2]]["middle_zone"][player]
             IN  /\ card.turn_placed >= current_turn
                       => (~last'.success /\ UNCHANGED battlefield_cards)
                 /\ (/\ card.turn_placed < current_turn
                     /\ ~card.has_moved_this_turn
                     /\ are_adjacent(m[1], m[2])
                     /\ can_place_at_location(m[2], player))
                       => (/\ last'.success
                           /\ arrived # <<>>
                           /\ arrived[Len(arrived)].uid = card.uid)]_vars

\* The acting side has tried to move a unit it placed this turn and has been
\* turned down.
C13_Witness ==
    /\ last = Result(current_player, "move_card", FALSE)
    /\ awaiting_blocker_selection = Absent
    /\ \E z \in ZoneSet :
           /\ Len(battlefield_cards["Gate"][z][current_player]) = 1
           /\ UnitCount(current_player) = 1
           /\ battlefield_cards["Gate"][z][current_player][1].turn_placed = current_turn

\* A third environment for on-play abilities: either side places a
\* Necromancer, a Pikeman or an Assassin in the Gate's middle_zone, up to
\* MaxAbilityUnits units.
MaxAbilityUnits == 3

AbilityPlaceInputs ==
    {<<"Necromancer", "Gate", "middle_zone">>,
     <<"Pikeman", "Gate", "middle_zone">>,
     <<"Assassin", "Gate", "middle_zone">>,
     <<"Healer", "Gate", "middle_zone">>,
     <<"Healer", "Gate", "defender_zone">>}

NextAbility ==
    \/ \E player \in Sides, m \in AbilityPlaceInputs :
           /\ next_uid <= MaxAbilityUnits
           /\ PlaceCard(player, m[1], m[2], m[3])
           /\ UNCHANGED net
    \/ \E player \in Sides :
           /\ (player = "defender" /\ NormalActionAllowed(player)) => current_turn < MaxTurn
           /\ EndTurn(player)
           /\ UNCHANGED net
    \/ \E player \in Sides, assignments \in AssignmentChoices : CombatAssignments(player, assignments) /\ UNCHANGED net

SpecAbility == Init /\ [][NextAbility]_vars

\* The first position of a list with the lowest current_health.
LowestHealthIndex(cards) ==
    CHOOSE i \in 1..Len(cards) :
        /\ \A j \in 1..Len(cards) : cards[i].current_health <= cards[j].current_health
        /\ \A j \in 1..(i - 1) : cards[j].current_health > cards[i].current_health

\* C14 as stated: an Assassin placed into a zone with enemy units deals 2
\* damage to the enemy with the lowest current_health of that zone and to no
\* other unit; a target brought to 0 or below leaves the battlefield and its
\* on-death ability fires within the placement: a Necromancer killed this way
\* leaves a Skeleton of its side in the zone.
C14_AssassinOnPlay ==
    [][\A player \in Sides, m \in AbilityPlaceInputs :
          (/\ m[1] = "Assassin"
           /\ PlaceCard(player, m[1], m[2], m[3])
           /\ last'.success
           /\ battlefield_cards[m[2]][m[3]][Other(player)] # <<>>)
          => LET enemies == battlefield_cards[m[2]][m[3]][Other(player)]
                 after == battlefield_cards'[m[2]][m[3]][Other(player)]
                 w == LowestHealthIndex(enemies)
             IN  IF enemies[w].current_health > 2
                 THEN after = [enemies EXCEPT ![w].current_health = @ - 2]
                 ELSE /\ \A i \in 1..Len(after) : after[i].uid # enemies[w].uid
                      /\ \A i \in 1..Len(enemies) :
                             i # w => \E j \in 1..Len(after) : after[j] = enemies[i]
                      /\ enemies[w].card_id = "Necromancer"
                             => \E j \in 1..Len(after) :
                                    after[j].card_id = "Skeleton" /\ after[j].uid >= next_uid]_vars


\* Enemy units of a side at a location, over the three zones.
EnemyCount(location, side) ==
    SumSeq([j \in 1..Len(ZONES) |-> Len(battlefield_cards[location][ZONES[j]][Other(side)])])

\* C15: at a turn resolution, at an uncaptured capturable location where an
\* attacker unit stands in middle_zone and no defender unit stands in any zone,
\* the attacker's accumulated power grows by the attack of its units (middle_zone
\* once, defender_zone twice); control goes to the attacker exactly when the
\* accumulated power has reached 5, and stays open below 5.
C15_CaptureAtThreshold ==
    [][current_turn' = current_turn + 1 =>
         \A l \in CAPTURABLE_LOCATIONS :
             (/\ location_control[l] = None
              /\ Len(battlefield_cards[l]["middle_zone"]["attacker"]) > 0
              /\ EnemyCount(l, "attacker") = 0)
             => LET accumulated ==
                        capture_power[l]["attacker"]
                        + AttackSum(battlefield_cards[l]["middle_zone"]["attacker"])
                        + 2 * AttackSum(battlefield_cards[l]["defender_zone"]["attacker"])
                IN  IF accumulated >= CAPTURE_THRESHOLD
                    THEN /\ location_control'[l] = "attacker"
                         /\ capture_power'[l] = [p \in Sides |-> 0]
                    ELSE /\ location_control'[l] = None
                         /\ capture_power'[l]["attacker"] = accumulated]_vars

\* A lone Avatar placed in the Gate's middle_zone has accumulated 2, 4 and 6
\* over three resolutions and the Gate is the attacker's at turn 4.
C15_Witness ==
    /\ current_turn = 4
    /\ next_uid = 2
    /\ Len(battlefield_cards["Gate"]["middle_zone"]["attacker"]) = 1
    /\ battlefield_cards["Gate"]["middle_zone"]["attacker"][1].card_id = "Avatar"
    /\ location_control["Gate"] = "attacker"


\* The frame of a quiet resolution: hands, decks, queue, control and capture
\* power as before, the defender's units as before, the attacker's units as
\* before but untapped, every per-turn flag cleared, the turn counter one
\* higher and the attacker to act.
QuietFrame ==
    /\ player_hands' = player_hands
    /\ player_decks' = player_decks
    /\ hand_reinforcement_queue' = hand_reinforcement_queue
    /\ location_control' = location_control
    /\ capture_power' = capture_power
    /\ \A l \in LocSet, z \in ZoneSet :
           /\ battlefield_cards'[l][z]["defender"] = battlefield_cards[l][z]["defender"]
           /\ Len(battlefield_cards'[l][z]["attacker"]) = Len(battlefield_cards[l][z]["attacker"])
           /\ \A i \in 1..Len(battlefield_cards[l][z]["attacker"]) :
                  battlefield_cards'[l][z]["attacker"][i] =
                      [battlefield_cards[l][z]["attacker"][i]
                          EXCEPT !.is_tapped = FALSE, !.has_moved_this_turn = FALSE]
    /\ has_passed' = [s \in Sides |-> FALSE]
    /\ has_drawn' = [s \in Sides |-> FALSE]
    /\ has_moved' = [s \in Sides |-> FALSE]
    /\ current_player' = "attacker"

\* A turn resolution with an empty queue, no combat zone and no capture.
QuietResolution ==
    /\ current_turn' = current_turn + 1
    /\ hand_reinforcement_queue = <<>>
    /\ pending_combat_zones' = <<>>
    /\ location_control' = location_control

\* No unit stands where it adds capture power: at every uncaptured capturable
\* location the middle_zone is empty and no side has a unit in the other's home zone.
NoPowerGained ==
    \A l \in CAPTURABLE_LOCATIONS :
        location_control[l] = None =>
            /\ \A s \in Sides : battlefield_cards[l]["middle_zone"][s] = <<>>
            /\ battlefield_cards[l]["defender_zone"]["attacker"] = <<>>
            /\ battlefield_cards[l]["attacker_zone"]["defender"] = <<>>

\* No Healer stands on the battlefield (no end-of-turn heal applies).
NoHealer ==
    \A l \in LocSet, z \in ZoneSet, s \in Sides :
        \A i \in 1..Len(battlefield_cards[l][z][s]) : battlefield_cards[l][z][s][i].card_id # "Healer"

\* C16 (amended): a turn resolution with an empty reinforcement queue, no
\* combat zone, no capture, no unit adding capture power and no Healer leaves
\* hands, decks, units, location_control and capture_power as before; the
\* changes are the flag reset, the turn increment, the attacker to act and the
\* attacker's untap.
C16_QuietResolution ==
    [][(QuietResolution /\ NoPowerGained /\ NoHealer) => QuietFrame]_vars

\* C16 as stated: the same frame for every resolution with an empty queue, no
\* combat zone and no capture.
C16_AsStated ==
    [][QuietResolution => QuietFrame]_vars

\* A quiet resolution has just run with units on the battlefield: the defender's
\* end_turn was accepted, a new turn has begun and no unit adds capture power.
C16_Witness ==
    /\ last.action = "end_turn" /\ last.actor = "defender" /\ last.success
    /\ current_turn >= 2
    /\ current_player = "attacker"
    /\ has_passed = [s \in Sides |-> FALSE]
    /\ awaiting_blocker_selection = Absent
    /\ UnitCount("attacker") > 0
    /\ UnitCount("defender") > 0
    /\ NoPowerGained


\* C17: control of a capturable location is permanent and its ledger is closed:
\* no step changes a location_control entry that is set, and whenever a
\* capturable location is controlled after a step both of its capture_power
\* counters are 0.
C17_ControlPermanent ==
    [][\A l \in CAPTURABLE_LOCATIONS :
          /\ location_control[l] # None => location_control'[l] = location_control[l]
          /\ location_control'[l] # None => capture_power'[l] = [p \in Sides |-> 0]]_vars

\* The Gate was captured at the first resolution by an Avatar and a Pikeman
\* placed on turn 1; both still stand there two resolutions later.
C17_Witness ==
    /\ current_turn = 4
    /\ location_control["Gate"] = "attacker"
    /\ capture_power["Gate"] = [p \in Sides |-> 0]
    /\ \E i \in 1..Len(battlefield_cards["Gate"]["middle_zone"]["attacker"]) :
           battlefield_cards["Gate"]["middle_zone"]["attacker"][i].turn_placed = 1
    /\ \E i \in 1..Len(battlefield_cards["Gate"]["defender_zone"]["attacker"]) :
           battlefield_cards["Gate"]["defender_zone"]["attacker"][i].turn_placed = 1


\* The blocked set of a side.
BlockedFor(side) == IF side = "attacker" THEN ATTACKER_BLOCKED ELSE DEFENDER_BLOCKED

\* A side controls a capturable location next to the location.
ControlsNeighbour(side, location) ==
    \E adj \in CAPTURABLE_LOCATIONS : adj \in ADJACENCY[location] /\ location_control[adj] = side

\* Every side with a unit at a location of its blocked set controls a
\* capturable location next to it.
AccessHeld ==
    \A side \in Sides, l \in LocSet :
        (l \in BlockedFor(side) /\ \E z \in ZoneSet : battlefield_cards[l][z][side] # <<>>)
            => ControlsNeighbour(side, l)

\* The handler left the game as it was.
Rejected == ~last'.success /\ UNCHANGED <<engine_vars, session_vars, next_uid>>

\* C18: after every step, a side with a unit at a location of its blocked set
\* (attacker: Keep, Courtyard; defender: Forest, Camp) controls a capturable
\* location adjacent to it; a place_card or move_card into a blocked location
\* by a side that controls no adjacent capturable location is rejected and
\* changes nothing.
C18_AccessRule ==
    [][/\ AccessHeld'
       /\ \A player \in Sides, m \in CapturePlaceInputs :
              (/\ PlaceCard(player, m[1], m[2], m[3])
               /\ m[2] \in BlockedFor(player)
               /\ ~ControlsNeighbour(player, m[2])) => Rejected
       /\ \A player \in Sides, m \in CaptureMoveInputs :
              (/\ MoveCard(player, m[1], m[2], m[3])
               /\ m[2] \in BlockedFor(player)
               /\ ~ControlsNeighbour(player, m[2])) => Rejected]_vars

\* The attacker holds the Gate and has a unit in the Courtyard.
C18_Witness ==
    /\ location_control["Gate"] = "attacker"
    /\ \E z \in ZoneSet : battlefield_cards["Courtyard"][z]["attacker"] # <<>>


\* The units of a side at a location, over the three zones.
UnitsAt(location, side) ==
    SumSeq([j \in 1..Len(ZONES) |-> Len(battlefield_cards[location][ZONES[j]][side])])

\* C19: a move_card is accepted only when source and destination are distinct
\* adjacent locations of the graph and the index names a unit of the sender at
\* the source (0 <= index < number of its units there); every other request
\* is answered as a failure, raises nothing, and changes no unit and no flag.
C19_MoveOnlyAdjacentAndIndexed ==
    [][\A player \in Sides, m \in MoveRequestInputs :
          MoveCard(player, m[1], m[2], m[3]) =>
              LET valid == /\ m[1] \in LocSet /\ m[2] \in LocSet
                           /\ m[1] # m[2]
                           /\ m[2] \in ADJACENCY[m[1]]
                           /\ 0 <= m[3] /\ m[3] < UnitsAt(m[1], player)
              IN  /\ last'.success => valid
                  /\ ~valid => /\ ~last'.raised
                               /\ UNCHANGED <<engine_vars, session_vars, next_uid>>]_vars


\* The hand of a side holds the card.
InHand(side, card_id) == \E i \in 1..Len(player_hands[side]) : player_hands[side][i] = card_id

\* C20: an accepted place_card names a card of the sender's hand and takes one
\* copy of it out of the hand (the hand is one shorter); a place_card naming a
\* card that is not in the sender's hand is rejected and the battlefield stays
\* as it was.
C20_PlacedFromHand ==
    [][\A player \in Sides, m \in PlaceInputs :
          PlaceCard(player, m[1], m[2], m[3]) =>
              /\ last'.success =>
                     /\ InHand(player, m[1])
                     /\ Len(player_hands'[player]) = Len(player_hands[player]) - 1
              /\ ~InHand(player, m[1]) =>
                     /\ ~last'.success
                     /\ battlefield_cards' = battlefield_cards]_vars


\* The number of copies of a card in a hand.
CopiesIn(hand, card_id) == Cardinality({i \in 1..Len(hand) : hand[i] = card_id})

\* C21: an accepted draw of a card of cost c >= 1 appends an entry with
\* turns_remaining = c for the drawing side; a turn resolution lowers every
\* entry by exactly 1, removes those that reach 0 and appends exactly one copy
\* of each removed card to its owner's hand and to no other hand; no other step
\* changes an entry of the queue or adds a card to a hand.
C21_QueueCountdown ==
    [][LET ArrivingCount(queue, side, card_id) ==
               Cardinality({i \in 1..Len(queue) :
                   queue[i].player = side /\ queue[i].card_id = card_id
                   /\ queue[i].turns_remaining <= 1})
           Kept(queue) == SelectSeq(queue, LAMBDA e : e.turns_remaining > 1)
           KeptEntries(queue) ==
               [i \in 1..Len(Kept(queue)) |-> [Kept(queue)[i] EXCEPT !.turns_remaining = @ - 1]]
       IN  /\ \A player \in Sides, card_id \in QueueDrawIds :
                  (DrawCard(player, card_id) /\ last'.success /\ CARDS_DATA[card_id].cost >= 1)
                      => hand_reinforcement_queue' =
                             Append(hand_reinforcement_queue,
                                    [card_id |-> card_id,
                                     turns_remaining |-> CARDS_DATA[card_id].cost,
                                     player |-> player])
           /\ current_turn' = current_turn + 1
                  => /\ hand_reinforcement_queue' = KeptEntries(hand_reinforcement_queue)
                     /\ \A side \in Sides, card_id \in DOMAIN CARDS_DATA :
                            CopiesIn(player_hands'[side], card_id) =
                                CopiesIn(player_hands[side], card_id)
                                + ArrivingCount(hand_reinforcement_queue, side, card_id)
           /\ current_turn' = current_turn
                  => /\ Len(hand_reinforcement_queue') >= Len(hand_reinforcement_queue)
                     /\ \A i \in 1..Len(hand_reinforcement_queue) :
                            hand_reinforcement_queue'[i] = hand_reinforcement_queue[i]
                     /\ \A side \in Sides, card_id \in DOMAIN CARDS_DATA :
                            CopiesIn(player_hands'[side], card_id)
                                <= CopiesIn(player_hands[side], card_id)]_vars

\* A Footman (cost 2) drawn by the attacker on turn 1 has reached its hand at
\* the second resolution, and the queue no longer holds it.
C21_Witness ==
    /\ current_turn = 3
    /\ CopiesIn(player_hands["attacker"], "Footman") = 1
    /\ CopiesIn(player_hands["defender"], "Footman") = 0
    /\ \A i \in 1..Len(hand_reinforcement_queue) :
           ~(hand_reinforcement_queue[i].player = "attacker"
             /\ hand_reinforcement_queue[i].card_id = "Footman")


\* C22: the acting side changes only by an accepted end_turn and then goes to
\* the other side; the turn counter changes only by the defender's accepted
\* end_turn, which raises it by exactly 1 and hands the turn to the attacker;
\* after every step the acting side is the defender exactly when the attacker
\* has passed; the attacker's accepted end_turn clears the defender's has-drawn
\* and has-moved flags and untaps the defender's units, and leaves the turn
\* counter, the queue, the hands, the attacker's units, location_control,
\* capture_power and the combat state as they were.
C22_PhaseCycle ==
    [][LET ended(side) == last'.action = "end_turn" /\ last'.success /\ last'.actor = side
       IN  /\ current_player' # current_player
                  => /\ ended(current_player)
                     /\ current_player' = Other(current_player)
           /\ current_turn' # current_turn => ended("defender")
           /\ ended("defender")
                  => /\ current_player = "defender"
                     /\ current_turn' = current_turn + 1
                     /\ current_player' = "attacker"
           /\ (current_player' = "defender") <=> has_passed'["attacker"]
           /\ ended("attacker")
                  => /\ current_player = "attacker" /\ current_player' = "defender"
                     /\ current_turn' = current_turn
                     /\ ~has_drawn'["defender"] /\ ~has_moved'["defender"]
                     /\ \A l \in LocSet, z \in ZoneSet :
                            /\ battlefield_cards'[l][z]["attacker"] = battlefield_cards[l][z]["attacker"]
                            /\ Len(battlefield_cards'[l][z]["defender"])
                                   = Len(battlefield_cards[l][z]["defender"])
                            /\ \A i \in 1..Len(battlefield_cards[l][z]["defender"]) :
                                   battlefield_cards'[l][z]["defender"][i] =
                                       [battlefield_cards[l][z]["defender"][i]
                                           EXCEPT !.is_tapped = FALSE, !.has_moved_this_turn = FALSE]
                     /\ UNCHANGED <<hand_reinforcement_queue, player_hands, player_decks,
                                    location_control, capture_power, session_vars>>]_vars

\* The defender's Avatar, placed at the Gate on turn 1 and moved to the
\* Courtyard on turn 2, has been untapped by the attacker's end_turn of turn 3.
C22_Witness ==
    /\ last.action = "end_turn" /\ last.success /\ last.actor = "attacker"
    /\ current_turn = 3
    /\ current_player = "defender"
    /\ \E i \in 1..Len(battlefield_cards["Courtyard"]["middle_zone"]["defender"]) :
           LET unit == battlefield_cards["Courtyard"]["middle_zone"]["defender"][i]
           IN  unit.card_id = "Avatar" /\ unit.turn_placed = 1 /\ ~unit.has_moved_this_turn


\* C23: when the blocking side's list of the awaited zone holds a Taunt unit,
\* a blocker assignment is accepted only if the first blocker listed for every
\* attacker with a non-empty list is a Taunt unit; any other assignment is
\* rejected and leaves the battlefield as it was.
C23_TauntPrimaryBlocker ==
    [][\A player \in Sides, assignments \in AssignmentChoices :
          (/\ CombatAssignments(player, assignments)
           /\ awaiting_blocker_selection # Absent
           /\ player = get_blocker_side(awaiting_blocker_selection[1], awaiting_blocker_selection[2]))
          => LET blockers == battlefield_cards[awaiting_blocker_selection[1]]
                                              [awaiting_blocker_selection[2]][player]
                 taunt_present == \E i \in 1..Len(blockers) : "Taunt" \in get_subtypes(blockers[i])
                 taunt_first == \A a \in DOMAIN assignments :
                                    assignments[a] # <<>>
                                        => /\ assignments[a][1] + 1 <= Len(blockers)
                                           /\ "Taunt" \in get_subtypes(blockers[assignments[a][1] + 1])
             IN  (taunt_present /\ ~taunt_first)
                     => (~last'.success /\ battlefield_cards' = battlefield_cards)]_vars


\* C24: a rejected action sends nothing to the opposing connection: no step
\* whose action is answered with a failure runs the broadcast of game_state.
C24_RejectionStaysPrivate ==
    [][(last'.action \in NormalActions \cup {"combat_assignments"} /\ ~last'.success)
          => ~last'.broadcast]_vars


\* C25: a combat_assignments message with a malformed payload (a non-numeric
\* assignment key) is answered with a failure, raises nothing in the
\* connection handler, and leaves the engine and the session as they were.
C25_MalformedRejected ==
    [][\A player \in Sides :
          MalformedAssignments(player)
              => /\ ~last'.success
                 /\ ~last'.raised
                 /\ UNCHANGED <<engine_vars, session_vars, next_uid>>]_vars


\* C26: re-attaching a user of a live match leaves the engine and the session's
\* combat state (pending zones, awaited pair, winner) exactly as they were and
\* resends the projected state, which is the one the user had; a further
\* re-attachment from the state reached writes the same session state again.
C26_ReconnectIdempotent ==
    [][\A player \in Sides :
          Reconnect(player)
              => /\ UNCHANGED <<engine_vars, session_vars>>
                 /\ last'.broadcast
                 /\ get_game_state_for_player(player)' = get_game_state_for_player(player)
                 /\ RejoinedSession' = session_vars']_vars

\* The blocking side has re-attached while its blocker assignment is awaited.
C26_Witness ==
    /\ last.action = "auth" /\ last.success
    /\ awaiting_blocker_selection # Absent
    /\ last.actor = get_blocker_side(awaiting_blocker_selection[1], awaiting_blocker_selection[2])
    /\ pending_combat_zones # <<>>


\* C27: a stalled connection does not block the other player: every action
\* that player's handler has taken up is eventually answered and the handler
\* is idle again, ready for the next action.
C27_StalledClientDoesNotBlock ==
    \A player \in Sides :
        (net.stalled # player /\ net.pc[player] # Idle) ~> (net.pc[player] = Idle)

\* C28: the engine of a match changes only in the step in which an idle
\* connection handler takes up one action, and that step is the checks and
\* the mutation of this one action together; no step of a handler that is
\* between two awaits changes the engine or the session.
C28_MutationsSerialized ==
    [][(engine_vars' # engine_vars \/ session_vars' # session_vars)
          => \E player \in Sides, msg \in NetInputs :
                 /\ net.pc[player] = Idle
                 /\ net'.pc[player] # Idle
                 /\ Handle(player, msg)]_vars

\* Both handlers are between two awaits, and the defender's action has been
\* applied while the attacker's handler was still sending.
C28_Witness ==
    /\ net.pc["attacker"].at = "state"
    /\ net.pc["defender"] # Idle
    /\ last.actor = "defender" /\ last.success


\* C29: in the combat of one pair, every blocker loses exactly the full
\* modified attack of the attackers that list it first (and nothing from any
\* other attacker), and every attacker loses exactly the attack of each
\* blocker listed for it; an attacker without blockers deals and receives
\* nothing.  A unit whose health falls to zero or below is gone afterwards.
C29_DamageRule ==
    [][\A player \in Sides, assignments \in AssignmentChoices :
          (AssignmentAllowed(player) /\ CombatAssignments(player, assignments))
          => LET location == awaiting_blocker_selection[1]
                 zone == awaiting_blocker_selection[2]
                 atk == battlefield_cards[location][zone][Other(player)]
                 blk == battlefield_cards[location][zone][player]
                 own == process_combat_modifiers(atk, blk)
                 dealt(b) == SumSeq([a \in 1..Len(atk) |->
                                 IF assignments[a - 1] # <<>> /\ assignments[a - 1][1] + 1 = b
                                 THEN DamageToBlocker(atk[a], own.attacker[a], blk[b]) ELSE 0])
                 taken(a) == SumSeq([k \in 1..Len(assignments[a - 1]) |->
                                 LET b == assignments[a - 1][k] + 1
                                 IN  DamageToAttacker(blk[b], own.defender[b], atk[a])])
                 Left(cards, card, damage) ==
                     IF card.current_health - damage <= 0
                     THEN \A i \in 1..Len(cards) : cards[i].uid # card.uid
                     ELSE \E i \in 1..Len(cards) :
                              /\ cards[i].uid = card.uid
                              /\ cards[i].current_health = card.current_health - damage
             IN  /\ \A b \in 1..Len(blk) :
                        Left(battlefield_cards'[location][zone][player], blk[b], dealt(b))
                 /\ \A a \in 1..Len(atk) :
                        Left(battlefield_cards'[location][zone][Other(player)], atk[a], taken(a))]_vars


\* C30: the combat of one pair is simultaneous.  Every unit of the zone loses
\* the damage computed from the lists as they stood before the combat (units
\* that die in it included), no unit with health of zero or less is left in
\* the zone, every Necromancer that died has put a Skeleton on its side, and
\* all of this is in place in the step that offers the next pending pair.
C30_SimultaneousDamage ==
    [][\A player \in Sides, assignments \in AssignmentChoices :
          (AssignmentAllowed(player) /\ CombatAssignments(player, assignments))
          => LET location == awaiting_blocker_selection[1]
                 zone == awaiting_blocker_selection[2]
                 before == battlefield_cards[location][zone]
                 after == battlefield_cards'[location][zone]
                 modifiers == process_combat_modifiers(before[Other(player)], before[player])
                 taken(side, i) ==
                     IF side = player
                     THEN DamageToDefenders(before[Other(player)], before[player], assignments,
                                            modifiers, Other(player), i)
                     ELSE DamageToAttackers(before[Other(player)], before[player], assignments,
                                            modifiers, Other(player), i)
                 died(side) == {i \in 1..Len(before[side]) :
                                   before[side][i].current_health - taken(side, i) <= 0}
                 arrived(side) == {j \in 1..Len(after[side]) :
                                      \A i \in 1..Len(before[side]) :
                                          before[side][i].uid # after[side][j].uid}
             IN  /\ \A side \in Sides :
                        /\ \A j \in 1..Len(after[side]) : after[side][j].current_health > 0
                        /\ \A i \in 1..Len(before[side]) :
                               IF i \in died(side)
                               THEN \A j \in 1..Len(after[side]) :
                                        after[side][j].uid # before[side][i].uid
                               ELSE \E j \in 1..Len(after[side]) :
                                        /\ after[side][j].uid = before[side][i].uid
                                        /\ after[side][j].current_health
                                               = before[side][i].current_health - taken(side, i)
                        /\ \A j \in arrived(side) : after[side][j].card_id = "Skeleton"
                        /\ Cardinality(arrived(side))
                               = Cardinality({i \in died(side) :
                                                 before[side][i].card_id = "Necromancer"})
                 /\ \A k \in 1..Len(pending_combat_zones') :
                        pending_combat_zones'[k] # awaiting_blocker_selection
                 /\ awaiting_blocker_selection' =
                        IF pending_combat_zones' = <<>> THEN Absent
                        ELSE pending_combat_zones'[1]]_vars

\* The Heavy_Cavalry and the Necromancer it blocked have killed each other:
\* the Skeleton stands alone in the Gate's middle zone while the Gate's
\* defender zone is offered for assignment.
C30_Witness ==
    /\ last.action = "combat_assignments" /\ last.success
    /\ awaiting_blocker_selection = <<"Gate", "defender_zone">>
    /\ battlefield_cards["Gate"]["middle_zone"]["attacker"] = <<>>
    /\ \E j \in 1..Len(battlefield_cards["Gate"]["middle_zone"]["defender"]) :
           battlefield_cards["Gate"]["middle_zone"]["defender"][j].card_id = "Skeleton"


\* C31: at a turn resolution, at an uncaptured capturable location where both
\* sides have a middle_zone unit and an accumulated power at or above their
\* own threshold, the side with strictly more power takes control; with equal
\* power nobody does, control stays open and both counters keep their value.
C31_ContestedCapture ==
    [][current_turn' = current_turn + 1 =>
         \A l \in CAPTURABLE_LOCATIONS :
             LET accumulated(side) ==
                     capture_power[l][side]
                     + AttackSum(battlefield_cards[l]["middle_zone"][side])
                     + 2 * AttackSum(battlefield_cards[l][IF side = "attacker" THEN "defender_zone"
                                                          ELSE "attacker_zone"][side])
                 qualifies(side) ==
                     /\ Len(battlefield_cards[l]["middle_zone"][side]) > 0
                     /\ accumulated(side) >= CAPTURE_THRESHOLD
                            + SumSeq([j \in 1..Len(ZONES) |->
                                  HealthSum(battlefield_cards[l][ZONES[j]][Other(side)])])
             IN  (location_control[l] = None /\ qualifies("attacker") /\ qualifies("defender"))
                 => IF accumulated("attacker") > accumulated("defender")
                    THEN location_control'[l] = "attacker"
                    ELSE IF accumulated("defender") > accumulated("attacker")
                    THEN location_control'[l] = "defender"
                    ELSE /\ location_control'[l] = None
                         /\ capture_power'[l] = [side \in Sides |-> accumulated(side)]]_vars

\* Two Crossbowmen have faced each other in the Gate's middle zone for two
\* resolutions: both counters stand at 8, over both thresholds of 7, and the
\* Gate is still open.
C31_Witness ==
    /\ current_turn = 3
    /\ location_control["Gate"] = None
    /\ capture_power["Gate"] = [side \in Sides |-> 8]
    /\ \A side \in Sides : Len(battlefield_cards["Gate"]["middle_zone"][side]) = 1


\* C32: at a turn resolution the accumulation step adds, at every uncaptured
\* capturable location and for each side, the attack of the side's units in
\* middle_zone plus twice the attack of its units in the opposing home zone;
\* the side's own home zone adds nothing.  A location that stays uncaptured
\* shows that sum in its counters; a location that is not capturable or was
\* already captured keeps its counters.
C32_PowerAccumulation ==
    [][current_turn' = current_turn + 1 =>
         \A l \in LocSet, side \in Sides :
             LET gain == AttackSum(battlefield_cards[l]["middle_zone"][side])
                         + 2 * AttackSum(battlefield_cards[l][IF side = "attacker"
                                                              THEN "defender_zone"
                                                              ELSE "attacker_zone"][side])
                 added == accumulate_capture_power(process_end_of_turn(battlefield_cards),
                                                   location_control, capture_power)
             IN  IF l \in CAPTURABLE_LOCATIONS /\ location_control[l] = None
                 THEN /\ added[l][side] = capture_power[l][side] + gain
                      /\ location_control'[l] = None
                             => capture_power'[l][side] = capture_power[l][side] + gain
                 ELSE /\ added[l][side] = capture_power[l][side]
                      /\ capture_power'[l][side] = capture_power[l][side]]_vars

\* The defender's Pikeman has stood in its own home zone of the Gate through
\* two resolutions next to an attacker that never came: the Gate is open and
\* the defender's counter is still 0.
C32_Witness ==
    /\ current_turn = 3
    /\ location_control["Gate"] = None
    /\ capture_power["Gate"]["defender"] = 0
    /\ Len(battlefield_cards["Gate"]["defender_zone"]["defender"]) = 1
    /\ battlefield_cards["Gate"]["defender_zone"]["defender"][1].turn_placed = 1


\* C33: the first_placer of a middle zone is written once.  While it is None
\* the zone is empty; the step that brings the first unit into the zone sets
\* it to that unit's side; once set it keeps its value in every step, also
\* when the zone has become empty or holds only the other side's units.
C33_FirstPlacerOnce ==
    [][\A l \in LocSet :
          LET middle(field, side) == field[l]["middle_zone"][side]
          IN  IF first_placer[l] # None
              THEN first_placer'[l] = first_placer[l]
              ELSE /\ \A side \in Sides : middle(battlefield_cards, side) = <<>>
                   /\ \A side \in Sides :
                          middle(battlefield_cards', side) # <<>>
                              => /\ first_placer'[l] = side
                                 /\ middle(battlefield_cards', Other(side)) = <<>>
                   /\ (\A side \in Sides : middle(battlefield_cards', side) = <<>>)
                          => first_placer'[l] = None]_vars

\* The attacker entered the Gate's middle zone first and has no unit left
\* there; the defender's units hold the zone and the attacker is still its
\* first placer.  The Camp's middle zone was entered by a move.
C33_Witness ==
    /\ first_placer["Gate"] = "attacker"
    /\ battlefield_cards["Gate"]["middle_zone"]["attacker"] = <<>>
    /\ battlefield_cards["Gate"]["middle_zone"]["defender"] # <<>>
    /\ first_placer["Camp"] # None


\* C34: the Charge bonus is spent by the combat that uses it.  In a combat
\* where the attacker attacks (so every unit is given its own modifier), a
\* Charge unit that still had its bonus and dealt damage, as an attacker with
\* a blocker or as a listed blocker, carries no bonus afterwards.
C34_ChargeOnce ==
    [][\A assignments \in AssignmentChoices :
          (AssignmentAllowed("defender") /\ CombatAssignments("defender", assignments))
          => LET location == awaiting_blocker_selection[1]
                 zone == awaiting_blocker_selection[2]
                 fought(side, i) ==
                     IF side = "attacker" THEN assignments[i - 1] # <<>>
                     ELSE \E a \in DOMAIN assignments, k \in 1..MaxBlockList :
                              k <= Len(assignments[a]) /\ assignments[a][k] + 1 = i
             IN  \A side \in Sides :
                     \A i \in 1..Len(battlefield_cards[location][zone][side]) :
                         LET card == battlefield_cards[location][zone][side][i]
                         IN  (charge_bonus(card) > 0 /\ fought(side, i))
                             => \A j \in 1..Len(battlefield_cards'[location][zone][side]) :
                                    LET later == battlefield_cards'[location][zone][side][j]
                                    IN  later.uid = card.uid => charge_bonus(later) = 0]_vars


\* C35: ability effects stay in their zone.  A placement changes no unit
\* outside the (location, zone) the card was placed in; the end-of-turn pass
\* changes health, modifiers and presence of no list that holds no Healer; a
\* combat with its on-death effects changes no unit outside the awaited pair.
C35_ZoneScopedAbilities ==
    [][/\ \A player \in Sides, m \in AbilityPlaceInputs :
             PlaceCard(player, m[1], m[2], m[3])
             => \A l \in LocSet, z \in ZoneSet :
                    <<l, z>> # <<m[2], m[3]>> => battlefield_cards'[l][z] = battlefield_cards[l][z]
       /\ current_turn' = current_turn + 1
             => \A l \in LocSet, z \in ZoneSet, p \in Sides :
                    LET vital(cards) ==
                            [i \in 1..Len(cards) |->
                                <<cards[i].uid, cards[i].current_health,
                                  cards[i].attack_modifier, cards[i].health_modifier>>]
                    IN  (\A i \in 1..Len(battlefield_cards[l][z][p]) :
                             ~IsHealer(battlefield_cards[l][z][p][i]))
                        => vital(battlefield_cards'[l][z][p]) = vital(battlefield_cards[l][z][p])
       /\ \A player \in Sides, assignments \in AssignmentChoices :
             (AssignmentAllowed(player) /\ CombatAssignments(player, assignments))
             => \A l \in LocSet, z \in ZoneSet :
                    <<l, z>> # awaiting_blocker_selection
                        => battlefield_cards'[l][z] = battlefield_cards[l][z]]_vars

\* After the resolution of turn 1 the attacker's Pikeman, hit by the Assassin
\* placed next to it, is still at 1 health in the Gate's middle zone while
\* the attacker's Healer stands in the Gate's defender zone.
C35_Witness ==
    /\ current_turn = 2
    /\ \E i \in 1..Len(battlefield_cards["Gate"]["middle_zone"]["attacker"]) :
           /\ battlefield_cards["Gate"]["middle_zone"]["attacker"][i].card_id = "Pikeman"
           /\ battlefield_cards["Gate"]["middle_zone"]["attacker"][i].current_health = 1
    /\ \E i \in 1..Len(battlefield_cards["Gate"]["defender_zone"]["attacker"]) :
           battlefield_cards["Gate"]["defender_zone"]["attacker"][i].card_id = "Healer"


\* C36: a draw_card that was free to draw and failed, because the card is not
\* in the side's deck or is in the deck but not in the catalog, leaves the
\* decks, the reinforcement queue and the has-drawn flags as they were.
C36_FailedDrawLeavesState ==
    [][\A player \in Sides, card_id \in QueueDrawIds :
          (/\ NormalActionAllowed(player)
           /\ can_draw_card(player)
           /\ DrawCard(player, card_id)
           /\ ~last'.success)
          => /\ player_decks' = player_decks
             /\ hand_reinforcement_queue' = hand_reinforcement_queue
             /\ has_drawn' = has_drawn]_vars


\* C37: a decided winner is final.  From a state whose winner is set, no step
\* changes the winner and no step changes the engine (turn, flags, battlefield,
\* hands, decks, queue, control, capture power).
C37_WinnerFinal ==
    [][winner # None => (winner' = winner /\ engine_vars' = engine_vars)]_vars


\* C38: whenever the session awaits the blocker assignment of a pair, the
\* zone of the pair holds a unit of each side and its blocker side is one of
\* the two sides, so exactly one side passes the sender check; and every
\* middle zone that holds a unit has a first placer.
C38_AwaitedPairContested ==
    /\ awaiting_blocker_selection # Absent
           => LET location == awaiting_blocker_selection[1]
                  zone == awaiting_blocker_selection[2]
              IN  /\ \A side \in Sides : battlefield_cards[location][zone][side] # <<>>
                  /\ get_blocker_side(location, zone) \in Sides
                  /\ Cardinality({side \in Sides : AssignmentAllowed(side)}) = 1
    /\ \A l \in LocSet :
           (\E side \in Sides : battlefield_cards[l]["middle_zone"][side] # <<>>)
               => first_placer[l] \in Sides

\* The first pair of the resolution has been fought and the Gate's defender
\* zone, the second pair, is awaited with the defender as its blocker side.
C38_Witness ==
    /\ awaiting_blocker_selection = <<"Gate", "defender_zone">>
    /\ last.action = "combat_assignments" /\ last.success
    /\ AssignmentAllowed("defender") /\ ~AssignmentAllowed("attacker")


\* C39: a combat phase runs through its queue.  The resolution that starts it
\* queues exactly the contested pairs, in location order and within a location
\* in the order attacker_zone, middle_zone, defender_zone, and offers the
\* first; every accepted assignment is for the head of the queue, removes it
\* and nothing else, and offers the next pair; when the queue is empty no pair
\* is awaited and the acting side's normal actions are accepted again.
C39_CombatPhaseRunsOut ==
    [][LET rank(pair) ==
               Len(ZONES) * (CHOOSE i \in 1..Len(LOCATIONS) : LOCATIONS[i] = pair[1])
               + (CHOOSE j \in 1..Len(ZONES) : ZONES[j] = pair[2])
           offered(pending) == IF pending = <<>> THEN Absent ELSE pending[1]
       IN  /\ current_turn' = current_turn + 1
               => /\ \A k \in 1..(Len(pending_combat_zones') - 1) :
                         rank(pending_combat_zones'[k]) < rank(pending_combat_zones'[k + 1])
                  /\ \A l \in LocSet, z \in ZoneSet :
                         (\E k \in 1..Len(pending_combat_zones') :
                              pending_combat_zones'[k] = <<l, z>>)
                         <=> (\A side \in Sides : battlefield_cards'[l][z][side] # <<>>)
                  /\ awaiting_blocker_selection' = offered(pending_combat_zones')
           /\ \A player \in Sides, assignments \in AssignmentChoices :
                  (AssignmentAllowed(player) /\ CombatAssignments(player, assignments))
                  => /\ awaiting_blocker_selection = pending_combat_zones[1]
                     /\ pending_combat_zones' = Tail(pending_combat_zones)
                     /\ awaiting_blocker_selection' = offered(pending_combat_zones')
                     /\ pending_combat_zones' = <<>> => NormalActionAllowed(current_player)']_vars

\* Both pairs of the Gate have been fought in turn: the Assassin and the
\* Avatar of the middle zone are gone, the two Pikemen of the defender zone
\* are down to 1 health, the queue is empty and no pair is awaited.
C39_Witness ==
    /\ last.action = "combat_assignments" /\ last.success
    /\ pending_combat_zones = <<>> /\ awaiting_blocker_selection = Absent
    /\ first_placer["Gate"] = "attacker"
    /\ \A side \in Sides :
           /\ battlefield_cards["Gate"]["middle_zone"][side] = <<>>
           /\ Len(battlefield_cards["Gate"]["defender_zone"][side]) = 1
           /\ battlefield_cards["Gate"]["defender_zone"][side][1].current_health = 1


\* C40: between actions every unit on the battlefield has at least 1 health:
\* no state holds a unit with current_health of zero or less in any zone.
C40_UnitsAlive ==
    \A l \in LocSet, z \in ZoneSet, side \in Sides :
        \A i \in 1..Len(battlefield_cards[l][z][side]) :
            battlefield_cards[l][z][side][i].current_health >= 1

\* Still in turn 1, the attacker's only unit of the Gate's middle zone has
\* fallen to the Assassin the defender placed there: the attacker, its first
\* placer, has nothing left in the zone.
C40_Witness ==
    /\ current_turn = 1
    /\ first_placer["Gate"] = "attacker"
    /\ battlefield_cards["Gate"]["middle_zone"]["attacker"] = <<>>
    /\ \E i \in 1..Len(battlefield_cards["Gate"]["middle_zone"]["defender"]) :
           battlefield_cards["Gate"]["middle_zone"]["defender"][i].card_id = "Assassin"
    /\ last.action = "place_card" /\ last.actor = "defender" /\ last.success

=============================================================================
